---- MODULE Spec2Model ----
(***************************************************************************)
(* db-sub-data: extraction of a referentially consistent subset of a       *)
(* PostgreSQL database.  The module models the extract command             *)
(* (cmd/extract.go RunE), the graph builder (graph.Build), the             *)
(* topological sort (graph.TopoSort), the query builder                    *)
(* (extract/query.go), the extractor (extract.Extractor) and the COPY      *)
(* writer (output.Writer), and states the properties of the specification  *)
(* against them.                                                           *)
(***************************************************************************)
EXTENDS Integers, Sequences, FiniteSets, TLC

VARIABLES
    pc,            \* position of the command: the next step of RunE / Extract
    cfg,           \* the configuration file's content (config.Config)
    flags,         \* command line flags: outputPath, dryRun, verbose
    tables,        \* the catalog of the database: what schema.Introspect returns
    db,            \* the database content read so far: full name -> rows in storage order
    g,             \* the graph built by graph.Build
    order,         \* the traversal order of Extract
    idx,           \* index of the table the traversal or the emission stands at
    collected,     \* Extractor.collected
    collectedPKs,  \* Extractor.collectedPKs
    queries,       \* what was sent to the executor (pool.Query), in order, and
                   \* whether the executor answered without error
    stdout,        \* lines printed with fmt.Printf
    w,             \* lines received by the io.Writer handed to Extract
    files,         \* the file system: path -> whether the file exists, and its lines
    logged,        \* lines written with log.Printf
    connected,     \* a connection to the database was attempted (db.NewPool)
    sr,            \* extractSelfRef under way: the seeds it read, the foreign key it is at
    err            \* the error the command returned ("" while none)

vars == <<pc, cfg, flags, tables, db, g, order, idx, collected, collectedPKs,
          queries, stdout, w, files, logged, connected, sr, err>>

-----------------------------------------------------------------------------
(* Bounds of the model *)

\* row identifiers per table: "1" .. MaxId
MaxId == 2
\* foreign keys of one catalog
MaxFKs == 2
\* entries of cfg.Roots
MaxRoots == 2

-----------------------------------------------------------------------------
(* Generic helpers on sequences *)

Range(s) == {s[i] : i \in 1..Len(s)}

RECURSIVE Flatten(_)
Flatten(ss) == IF ss = <<>> THEN <<>> ELSE Head(ss) \o Flatten(Tail(ss))

Map(s, F(_)) == [i \in 1..Len(s) |-> F(s[i])]

\* the permutations of a finite set, as sequences: the orders in which Go
\* may iterate over a map with these keys
Perms(S) == {p \in [1..Cardinality(S) -> S] : \A i, j \in 1..Cardinality(S) : i # j => p[i] # p[j]}

\* strings.Join
RECURSIVE Join(_, _)
Join(ss, sep) ==
    IF ss = <<>> THEN ""
    ELSE IF Len(ss) = 1 THEN ss[1]
    ELSE ss[1] \o sep \o Join(Tail(ss), sep)

-----------------------------------------------------------------------------
(* schema: tables, columns, keys *)

\* a nil value of a row ([]any) and SQL NULL
NULL == "<nil>"

\* (*Table).FullName
FullName(t) == t.Schema \o "." \o t.Name

\* (*Table).ColumnNames
ColumnNames(t) == [i \in 1..Len(t.Columns) |-> t.Columns[i].Name]

\* position of a column in the table (1-based); a name that is no column maps,
\* as the zero value of the Go map does, to the first column
ColIdx(t, col) ==
    IF \E i \in 1..Len(t.Columns) : t.Columns[i].Name = col
    THEN CHOOSE i \in 1..Len(t.Columns) : t.Columns[i].Name = col
    ELSE 1

\* Extractor.pkColumnIndexes
pkColumnIndexes(t) == [i \in 1..Len(t.PrimaryKey) |-> ColIdx(t, t.PrimaryKey[i])]

HasPK(t) == t.PrimaryKey # <<>>

\* Extractor.extractPK (called for tables with a primary key)
extractPK(t, values) ==
    [i \in 1..Len(t.PrimaryKey) |->
        IF pkColumnIndexes(t)[i] <= Len(values) THEN values[pkColumnIndexes(t)[i]] ELSE NULL]

-----------------------------------------------------------------------------
(* graph.Build *)

EmptyMap == [k \in {} |-> <<>>]

\* the graph before Build has run
NoGraph == [Tables |-> EmptyMap, Edges |-> <<>>, SelfRefs |-> EmptyMap,
            Children |-> EmptyMap, Parents |-> EmptyMap, Adjacency |-> EmptyMap]

\* findTableKey: the key as given when it is one, else a key of that
\* unqualified name, else ""
findTableKey(ts, name) ==
    IF name \in DOMAIN ts THEN name
    ELSE IF \E k \in DOMAIN ts : ts[k].Name = name
         THEN CHOOSE k \in DOMAIN ts : ts[k].Name = name
         ELSE ""

\* a variant that keeps the excluded tables
FilterExcludedNone(ts, excludeSet) == ts

\* the first loop of Build: the tables whose unqualified name is not excluded
FilterExcluded(ts, excludeSet) ==
    [k \in {n \in DOMAIN ts : ts[n].Name \notin excludeSet} |-> ts[k]]

\* the second loop of Build: each virtual relation with both sides resolved
\* is appended to the foreign keys of its child
RECURSIVE InjectVirtual(_, _)
InjectVirtual(ts, vrs) ==
    IF vrs = <<>> THEN ts
    ELSE LET vr == Head(vrs)
             childKey == findTableKey(ts, vr.ChildTable)
             parentKey == findTableKey(ts, vr.ParentTable)
         IN  IF childKey = "" \/ parentKey = "" THEN InjectVirtual(ts, Tail(vrs))
             ELSE LET child == ts[childKey]
                      parent == ts[parentKey]
                      fk == [Name |-> "virtual_" \o child.Name \o "_" \o vr.ChildColumn
                                        \o "_" \o parent.Name,
                             ChildSchema |-> child.Schema,
                             ChildTable |-> child.Name,
                             ChildColumns |-> <<vr.ChildColumn>>,
                             ParentSchema |-> parent.Schema,
                             ParentTable |-> parent.Name,
                             ParentColumns |-> <<vr.ParentColumn>>,
                             IsSelfRef |-> childKey = parentKey,
                             Virtual |-> vr.Type,
                             JSONPath |-> vr.JSONPath]
                  IN  InjectVirtual([ts EXCEPT ![childKey].ForeignKeys = Append(@, fk)],
                                    Tail(vrs))

ParentKey(fk) == fk.ParentSchema \o "." \o fk.ParentTable

\* the foreign keys the third loop of Build meets, in the order it meets them
\* when the map of tables is iterated in the order iter
FKsInOrder(ts, iter) ==
    Flatten([i \in 1..Len(iter) |->
        [j \in 1..Len(ts[iter[i]].ForeignKeys) |->
            [name |-> iter[i], fk |-> ts[iter[i]].ForeignKeys[j]]]])

\* graph.Build; iter is the order in which Go iterates over g.Tables
Build(ts0, excludeSet, virtualRelations, iter) ==
    LET ts == InjectVirtual(FilterExcluded(ts0, excludeSet), virtualRelations)
        met == SelectSeq(FKsInOrder(ts, iter), LAMBDA e : ParentKey(e.fk) \in DOMAIN ts)
        edges == Map(SelectSeq(met, LAMBDA e : ~e.fk.IsSelfRef),
                     LAMBDA e : [FK |-> e.fk, ChildTable |-> e.name,
                                 ParentTable |-> ParentKey(e.fk)])
    IN  [Tables |-> ts,
         Edges |-> edges,
         SelfRefs |-> [n \in DOMAIN ts |->
                         Map(SelectSeq(met, LAMBDA e : e.name = n /\ e.fk.IsSelfRef),
                             LAMBDA e : e.fk)],
         Children |-> [n \in DOMAIN ts |->
                         Map(SelectSeq(edges, LAMBDA e : e.ParentTable = n),
                             LAMBDA e : e.ChildTable)],
         Parents |-> [n \in DOMAIN ts |->
                         Map(SelectSeq(edges, LAMBDA e : e.ChildTable = n),
                             LAMBDA e : e.ParentTable)],
         Adjacency |-> [n \in DOMAIN ts |->
                         {e.ParentTable : e \in {x \in Range(edges) : x.ChildTable = n}}
                         \cup {e.ChildTable : e \in {x \in Range(edges) : x.ParentTable = n}}]]

-----------------------------------------------------------------------------
(* graph.TopoSort *)

\* the pairs <<t, p>> TopoSort meets when it builds localParents and
\* localChildren: t in the order of ts, p a parent of t inside the subset
LocalPairs(gr, ts) ==
    Flatten([i \in 1..Len(ts) |->
        Map(SelectSeq(IF ts[i] \in DOMAIN gr.Parents THEN gr.Parents[ts[i]] ELSE <<>>,
                      LAMBDA p : p \in Range(ts)),
            LAMBDA p : <<ts[i], p>>)])

\* a variant that enqueues the child at every decrement
RECURSIVE RelaxEnqueueAlways(_, _, _)
RelaxEnqueueAlways(children, inDegree, queue) ==
    IF children = <<>> THEN [queue |-> queue, inDegree |-> inDegree]
    ELSE LET child == Head(children)
             d == [inDegree EXCEPT ![child] = @ - 1]
         IN  RelaxEnqueueAlways(Tail(children), d, Append(queue, child))

\* the inner loop of TopoSort over the children of the dequeued node
RECURSIVE Relax(_, _, _)
Relax(children, inDegree, queue) ==
    IF children = <<>> THEN [queue |-> queue, inDegree |-> inDegree]
    ELSE LET child == Head(children)
             d == [inDegree EXCEPT ![child] = @ - 1]
         IN  Relax(Tail(children), d, IF d[child] = 0 THEN Append(queue, child) ELSE queue)

\* the queue loop of TopoSort
RECURSIVE Kahn(_, _, _, _)
Kahn(queue, inDegree, ord, localChildren) ==
    IF queue = <<>> THEN [order |-> ord, inDegree |-> inDegree]
    ELSE LET node == Head(queue)
             r == Relax(localChildren[node], inDegree, Tail(queue))
         IN  Kahn(r.queue, r.inDegree, Append(ord, node), localChildren)

\* graph.TopoSort(g, tables)
TopoSort(gr, ts) ==
    LET pairs == LocalPairs(gr, ts)
        inDegree == [t \in Range(ts) |->
                        Cardinality({i \in 1..Len(pairs) : pairs[i][1] = t})]
        localChildren == [p \in Range(ts) |->
                        Map(SelectSeq(pairs, LAMBDA x : x[2] = p), LAMBDA x : x[1])]
        queue == SelectSeq(ts, LAMBDA t : inDegree[t] = 0)
        k == Kahn(queue, inDegree, <<>>, localChildren)
    IN  IF Len(k.order) < Len(ts)
        THEN [Order |-> k.order, HasCycle |-> TRUE,
              CycleTables |-> SelectSeq(ts, LAMBDA t : k.inDegree[t] > 0)]
        ELSE [Order |-> k.order, HasCycle |-> FALSE, CycleTables |-> <<>>]

\* graph.TopoSortAll; iter is the order in which Go iterates over g.Tables
TopoSortAll(gr, iter) == TopoSort(gr, iter)

\* the traversal and emission order of Extract: the order of the sort, the
\* cycle tables appended
ExtractOrder(topoResult) ==
    IF topoResult.HasCycle THEN topoResult.Order \o topoResult.CycleTables
    ELSE topoResult.Order

-----------------------------------------------------------------------------
(* extract/query.go: the query builder.  A query is kept in structured    *)
(* form: its kind, its table, the user's WHERE text (root), its           *)
(* conditions joined by AND (child; the seed condition for a self-ref     *)
(* query) and the join columns of the recursive step (self-ref).  A       *)
(* condition is  (cols) IN (tuples)  with each tuple a list of            *)
(* placeholder numbers $n, wrapped in  OR cols IS NULL  when nullable.    *)

\* the value-set cap of buildSingleColumnIN and buildCompositeIN
ValueSetCap == 10000

\* the empty query string ""
NoQuery == [kind |-> "", table |-> "", where |-> "", conds |-> <<>>, join |-> <<>>]

\* buildRootQuery
buildRootQuery(t, where) ==
    [kind |-> "root", table |-> FullName(t), where |-> where, conds |-> <<>>, join |-> <<>>]

\* a variant that takes every foreign key for NOT NULL
isFKNullableNever(t, fk) == FALSE

\* isFKNullable
isFKNullable(t, fk) ==
    \E j \in 1..Len(fk.ChildColumns) : \E i \in 1..Len(t.Columns) :
        t.Columns[i].Name = fk.ChildColumns[j] /\ t.Columns[i].Nullable

\* the truncation of both IN builders
CapPKs(pks) == IF Len(pks) > ValueSetCap THEN SubSeq(pks, 1, ValueSetCap) ELSE pks

\* buildSingleColumnIN
buildSingleColumnIN(fk, pks0, nullable, argIdx) ==
    LET pks == CapPKs(pks0)
    IN  [cond |-> [cols |-> <<fk.ChildColumns[1]>>,
                   tuples |-> [i \in 1..Len(pks) |-> <<argIdx + i - 1>>],
                   nullable |-> nullable],
         args |-> [i \in 1..Len(pks) |-> pks[i][1]],
         next |-> argIdx + Len(pks)]

\* a variant that advances the index by one per parent key only
buildCompositeINOnePerKey(fk, pks0, nullable, argIdx) ==
    LET pks == CapPKs(pks0)
        n == Len(fk.ChildColumns)
    IN  [cond |-> [cols |-> fk.ChildColumns,
                   tuples |-> [i \in 1..Len(pks) |->
                                  [j \in 1..n |-> argIdx + (i - 1) * n + j - 1]],
                   nullable |-> nullable],
         args |-> Flatten([i \in 1..Len(pks) |->
                             [j \in 1..n |-> IF j <= Len(pks[i]) THEN pks[i][j] ELSE NULL]]),
         next |-> argIdx + Len(pks)]

\* buildCompositeIN
buildCompositeIN(fk, pks0, nullable, argIdx) ==
    LET pks == CapPKs(pks0)
        n == Len(fk.ChildColumns)
    IN  [cond |-> [cols |-> fk.ChildColumns,
                   tuples |-> [i \in 1..Len(pks) |->
                                  [j \in 1..n |-> argIdx + (i - 1) * n + j - 1]],
                   nullable |-> nullable],
         args |-> Flatten([i \in 1..Len(pks) |->
                             [j \in 1..n |-> IF j <= Len(pks[i]) THEN pks[i][j] ELSE NULL]]),
         next |-> argIdx + Len(pks) * n]

\* the loop of buildChildQuery over the foreign keys of the table
RECURSIVE ChildConds(_, _, _, _)
ChildConds(t, fks, parentPKs, argIdx) ==
    IF fks = <<>> THEN [conds |-> <<>>, args |-> <<>>]
    ELSE LET fk == Head(fks)
             pks == IF ParentKey(fk) \in DOMAIN parentPKs THEN parentPKs[ParentKey(fk)] ELSE <<>>
         IN  IF fk.IsSelfRef \/ Len(pks) = 0
             THEN ChildConds(t, Tail(fks), parentPKs, argIdx)
             ELSE LET b == IF Len(fk.ChildColumns) = 1
                           THEN buildSingleColumnIN(fk, pks, isFKNullable(t, fk), argIdx)
                           ELSE buildCompositeIN(fk, pks, isFKNullable(t, fk), argIdx)
                      rest == ChildConds(t, Tail(fks), parentPKs, b.next)
                  IN  [conds |-> <<b.cond>> \o rest.conds, args |-> b.args \o rest.args]

\* buildChildQuery
buildChildQuery(t, parentPKs) ==
    LET c == ChildConds(t, t.ForeignKeys, parentPKs, 1)
    IN  IF Len(c.conds) = 0 THEN [query |-> NoQuery, args |-> <<>>]
        ELSE [query |-> [kind |-> "child", table |-> FullName(t), where |-> "",
                         conds |-> c.conds, join |-> <<>>],
              args |-> c.args]

\* buildSelfRefQuery
buildSelfRefQuery(t, fk, seedPKs) ==
    IF ~HasPK(t) \/ Len(seedPKs) = 0 THEN [query |-> NoQuery, args |-> <<>>]
    ELSE LET n == Len(t.PrimaryKey)
         IN  [query |-> [kind |-> "selfref", table |-> FullName(t), where |-> "",
                         conds |-> <<[cols |-> t.PrimaryKey,
                                      tuples |-> [i \in 1..Len(seedPKs) |->
                                                    [j \in 1..n |-> (i - 1) * n + j]],
                                      nullable |-> FALSE]>>,
                         join |-> [i \in 1..Len(fk.ChildColumns) |->
                                      [t |-> fk.ParentColumns[i], r |-> fk.ChildColumns[i]]]],
              args |-> Flatten([i \in 1..Len(seedPKs) |->
                                  [j \in 1..n |-> seedPKs[i][j]]])]

-----------------------------------------------------------------------------
(* The executor (PostgreSQL behind pool.Query): what a query returns on   *)
(* the database content.                                                  *)

\* the WHERE texts of the roots of the model and what they select
WhereTexts == {"", "id = '1'"}
WhereHolds(where, t, row) == where = "id = '1'" => row[ColIdx(t, "id")] = "1"

\* (cols) IN (tuples), with SQL's three-valued comparison: a NULL on either
\* side never matches; OR all cols IS NULL when the condition is nullable
CondHolds(t, cond, args, row) ==
    \/ \E i \in 1..Len(cond.tuples) : \A j \in 1..Len(cond.cols) :
          /\ row[ColIdx(t, cond.cols[j])] # NULL
          /\ args[cond.tuples[i][j]] # NULL
          /\ row[ColIdx(t, cond.cols[j])] = args[cond.tuples[i][j]]
    \/ /\ cond.nullable
       /\ \A j \in 1..Len(cond.cols) : row[ColIdx(t, cond.cols[j])] = NULL

\* SELECT * FROM t [WHERE ...] for a root or a child query
ExecSelect(ts, content, q, args) ==
    LET t == ts[q.table]
    IN  SelectSeq(content[q.table],
                  LAMBDA row : /\ WhereHolds(q.where, t, row)
                               /\ \A c \in 1..Len(q.conds) : CondHolds(t, q.conds[c], args, row))

\* a variant with the join turned round: ON t.<childCol_i> = r.<parentCol_i>
JoinStepDownwards(t, rows, join, working) ==
    {x \in rows : \E r \in working : \A i \in 1..Len(join) :
        /\ x[ColIdx(t, join[i].r)] # NULL
        /\ x[ColIdx(t, join[i].r)] = r[ColIdx(t, join[i].t)]}

\* the recursive step of the CTE: the rows t joined to a row r of the working
\* table ON t.<parentCol_i> = r.<childCol_i>
JoinStep(t, rows, join, working) ==
    {x \in rows : \E r \in working : \A i \in 1..Len(join) :
        /\ x[ColIdx(t, join[i].t)] # NULL
        /\ x[ColIdx(t, join[i].t)] = r[ColIdx(t, join[i].r)]}

\* WITH RECURSIVE ... UNION ALL: the working table is joined again until it is
\* empty.  On n rows an acyclic walk empties it within n steps; a working
\* table that is not empty after n steps is on a cycle of the data and the
\* evaluation goes on for ever.
RECURSIVE Recurse(_, _, _, _, _, _)
Recurse(t, rows, join, working, found, n) ==
    IF working = {} THEN [ends |-> TRUE, rows |-> found]
    ELSE IF n = 0 THEN [ends |-> FALSE, rows |-> found \cup working]
    ELSE Recurse(t, rows, join, JoinStep(t, rows, join, working), found \cup working, n - 1)

\* the self-ref query: SELECT DISTINCT * FROM tree, in storage order
ExecSelfRef(ts, content, q, args) ==
    LET t == ts[q.table]
        rows == Range(content[q.table])
        seed == {x \in rows : CondHolds(t, q.conds[1], args, x)}
        r == Recurse(t, rows, q.join, seed, {}, Cardinality(rows))
    IN  [ends |-> r.ends, rows |-> SelectSeq(content[q.table], LAMBDA x : x \in r.rows)]

-----------------------------------------------------------------------------
(* extract.Extractor.  E is the part of the extractor and of its          *)
(* surroundings that one step changes: collected, collectedPKs, the       *)
(* queries sent to the executor and the lines printed.                    *)

\* what a query may end with: no error; an error of pool.Query; an error of
\* rows.Values() at the row after the first `after` rows; an error reported by
\* rows.Err() when the stream broke after `after` rows
Outcomes(rows) ==
    {[kind |-> "ok", after |-> Len(rows)], [kind |-> "query", after |-> 0]}
    \cup {[kind |-> "values", after |-> k] : k \in 0..(Len(rows) - 1)}
    \cup {[kind |-> "rowsErr", after |-> k] : k \in 0..Len(rows)}

\* a variant that drops the error of a failed query
OutcomeErrDropped(out) == ""

\* the error a failed query surfaces: whatever the driver reports
OutcomeErr(out) == IF out.kind = "ok" THEN "" ELSE "pgx error"

\* Extractor.addRow
addRow(E, t, values) ==
    [E EXCEPT !.collected[FullName(t)] = Append(@, values),
              !.collectedPKs[FullName(t)] =
                  IF HasPK(t) THEN Append(@, extractPK(t, values)) ELSE @]

\* addRow for each of the rows, one after the other
addRows(E, t, rows) ==
    [E EXCEPT !.collected[FullName(t)] = @ \o rows,
              !.collectedPKs[FullName(t)] =
                  IF HasPK(t) THEN @ \o [i \in 1..Len(rows) |-> extractPK(t, rows[i])] ELSE @]

\* the part of extractRoot and extractChild after the query was built and
\* printed: pool.Query, the loop over rows.Next(), the count printed under
\* --verbose, rows.Err()
RunQuery(E, ts, content, t, query, args, verbose, out) ==
    LET E1 == [E EXCEPT !.queries = Append(@, [query |-> query, args |-> args,
                                                   ok |-> out.kind = "ok"])]
        rows == ExecSelect(ts, content, query, args)
        E2 == addRows(E1, t, IF out.kind = "ok" THEN rows ELSE SubSeq(rows, 1, out.after))
        E3 == IF verbose /\ out.kind \in {"ok", "rowsErr"}
              THEN [E2 EXCEPT !.stdout =
                        Append(@, <<"  -> rows", Len(E2.collected[FullName(t)])>>)]
              ELSE E2
    IN  [E |-> IF out.kind = "query" THEN E1 ELSE E3, err |-> OutcomeErr(out)]

\* Extractor.extractRoot; out is the outcome of the query
extractRoot(E, ts, content, t, where, dryRun, verbose, out) ==
    LET query == buildRootQuery(t, where)
        E1 == IF verbose \/ dryRun
              THEN [E EXCEPT !.stdout = Append(@, <<"[root]", FullName(t), query>>)]
              ELSE E
    IN  IF dryRun THEN [E |-> E1, err |-> ""]
        ELSE RunQuery(E1, ts, content, t, query, <<>>, verbose, out)

\* Extractor.extractChild
extractChild(E, ts, content, t, dryRun, verbose, out) ==
    LET b == buildChildQuery(t, E.collectedPKs)
        E1 == IF verbose \/ dryRun
              THEN [E EXCEPT !.stdout = Append(@, <<"[child]", FullName(t), b.query>>)]
              ELSE E
        E2 == IF dryRun THEN [E1 EXCEPT !.stdout = Append(@, <<"  args", b.args>>)] ELSE E1
    IN  IF b.query = NoQuery THEN [E |-> E, err |-> ""]
        ELSE IF dryRun THEN [E |-> E2, err |-> ""]
        ELSE RunQuery(E2, ts, content, t, b.query, b.args, verbose, out)

\* fmt.Sprintf("%v", v) for one value of a row
FmtAny(v) == IF v = NULL THEN "<nil>" ELSE v

\* fmt.Sprintf("%v", pkVals): the key of the duplicate check
FmtKey(pk) == "[" \o Join(Map(pk, FmtAny), " ") \o "]"

\* a variant that forgets the keys already collected
pkSetForgotten(E, t) == {}

\* Extractor.pkSet
pkSet(E, t) == {FmtKey(extractPK(t, E.collected[FullName(t)][i])) :
                    i \in 1..Len(E.collected[FullName(t)])}

\* the merge loop of extractSelfRef: the rows whose key is not yet there
RECURSIVE MergeRows(_, _, _, _)
MergeRows(E, t, rows, existing) ==
    IF rows = <<>> THEN E
    ELSE LET key == FmtKey(extractPK(t, Head(rows)))
         IN  IF key \in existing THEN MergeRows(E, t, Tail(rows), existing)
             ELSE MergeRows(addRow(E, t, Head(rows)), t, Tail(rows), existing \cup {key})

\* one round of the loop of extractSelfRef: fetchSelfRefRows for the foreign
\* key fk with the seeds read when extractSelfRef began (printing when
\* verbose or dryRun), the merge, and the total printed under --verbose.
\* ends is FALSE when the recursive query never returns: the executor took
\* the query (no error of pool.Query) and evaluates it for ever.
selfRefRound(E, ts, content, t, fk, seedPKs, dryRun, verbose, out) ==
    LET b == buildSelfRefQuery(t, fk, seedPKs)
        E1 == IF verbose \/ dryRun
              THEN [E EXCEPT !.stdout = Append(@, <<"  [self-ref]", FullName(t), b.query, b.args>>)]
              ELSE E
        res == ExecSelfRef(ts, content, b.query, b.args)
        hangs == ~res.ends /\ out.kind # "query"
        E2 == [E1 EXCEPT !.queries = Append(@, [query |-> b.query, args |-> b.args,
                                                    ok |-> hangs \/ out.kind = "ok"])]
        E3 == MergeRows(E2, t, res.rows, pkSet(E2, t))
        E4 == IF verbose
              THEN [E3 EXCEPT !.stdout = Append(@, <<"  [self-ref] total", FullName(t),
                                                     Len(E3.collected[FullName(t)])>>)]
              ELSE E3
    IN  IF b.query = NoQuery
        THEN [E |-> IF verbose
                    THEN [E EXCEPT !.stdout = Append(@, <<"  [self-ref] total", FullName(t),
                                                          Len(E.collected[FullName(t)])>>)]
                    ELSE E,
              err |-> "", ends |-> TRUE]
        ELSE IF hangs THEN [E |-> E2, err |-> "", ends |-> FALSE]
        ELSE IF out.kind = "ok" THEN [E |-> E4, err |-> "", ends |-> TRUE]
        ELSE [E |-> E2, err |-> OutcomeErr(out), ends |-> TRUE]

\* the root table lookup of Extract: unqualified name -> WHERE text; a later
\* entry for the same table replaces an earlier one
RECURSIVE rootWhere(_)
rootWhere(roots) ==
    IF roots = <<>> THEN EmptyMap
    ELSE LET r == roots[Len(roots)]
             m == rootWhere(SubSeq(roots, 1, Len(roots) - 1))
         IN  [k \in DOMAIN m \cup {r.Table} |-> IF k = r.Table THEN r.Where ELSE m[k]]

-----------------------------------------------------------------------------
(* output.Writer *)

\* a variant that leaves the tab as it is
RECURSIVE escapeStringTabsKept(_)
escapeStringTabsKept(s) ==
    IF s = "" THEN ""
    ELSE (CASE Head(s) = "\\" -> "\\\\"
            [] Head(s) = "\n" -> "\\n"
            [] Head(s) = "\r" -> "\\r"
            [] OTHER -> Head(s)) \o escapeStringTabsKept(Tail(s))

\* escapeString
RECURSIVE escapeString(_)
escapeString(s) ==
    IF s = "" THEN ""
    ELSE (CASE Head(s) = "\\" -> "\\\\"
            [] Head(s) = "\n" -> "\\n"
            [] Head(s) = "\r" -> "\\r"
            [] Head(s) = "\t" -> "\\t"
            [] OTHER -> Head(s)) \o escapeString(Tail(s))

\* the bool values of a row (a string value never has this form)
BoolTrue == "<true>"
BoolFalse == "<false>"

\* a variant that writes nil as the empty field
EscapeCopyValueNilEmpty(v) ==
    CASE v = NULL -> ""
      [] v = BoolTrue -> "t"
      [] v = BoolFalse -> "f"
      [] OTHER -> escapeString(v)

\* EscapeCopyValue, for nil, bool and string values
EscapeCopyValue(v) ==
    CASE v = NULL -> "\\N"
      [] v = BoolTrue -> "t"
      [] v = BoolFalse -> "f"
      [] OTHER -> escapeString(v)

\* the lines WriteHeader writes
HeaderLines == <<"BEGIN;", "SET session_replication_role = 'replica';", "">>

\* the lines WriteFooter writes
FooterLines == <<"SET session_replication_role = 'origin';", "COMMIT;">>

\* a variant that writes the block of a table without rows too
TableDataLinesAlways(t, rows) ==
    <<"COPY " \o FullName(t) \o " (" \o Join(ColumnNames(t), ", ") \o ") FROM stdin;">>
    \o [i \in 1..Len(rows) |-> Join(Map(rows[i], EscapeCopyValue), "\t")]
    \o <<"\\.", "">>

\* the lines WriteTableData writes
TableDataLines(t, rows) ==
    IF Len(rows) = 0 THEN <<>>
    ELSE <<"COPY " \o FullName(t) \o " (" \o Join(ColumnNames(t), ", ") \o ") FROM stdin;">>
         \o [i \in 1..Len(rows) |-> Join(Map(rows[i], EscapeCopyValue), "\t")]
         \o <<"\\.", "">>

-----------------------------------------------------------------------------
(* The inputs of a run: the catalog and the content of the database, the  *)
(* configuration file, the flags, the files present.                      *)

TableNames == <<"a", "b", "c">>
TableKeys == [i \in 1..Len(TableNames) |-> "public." \o TableNames[i]]

IdNames == <<"1", "2", "3", "4">>
Ids == {IdNames[i] : i \in 1..MaxId}

\* the foreign keys a catalog of the model may hold, in the order of their
\* constraint names (the order in which queryForeignKeys appends them)
FKUniverse ==
    << [child |-> "a", col |-> "alt_id",    parent |-> "a", nullable |-> TRUE],
       [child |-> "a", col |-> "b_id",      parent |-> "b", nullable |-> TRUE],
       [child |-> "a", col |-> "parent_id", parent |-> "a", nullable |-> TRUE],
       [child |-> "b", col |-> "a_id",      parent |-> "a", nullable |-> FALSE],
       [child |-> "c", col |-> "a_id",      parent |-> "a", nullable |-> TRUE],
       [child |-> "c", col |-> "b_id",      parent |-> "b", nullable |-> FALSE] >>

\* the ForeignKey queryForeignKeys builds for a constraint
MkFK(u) ==
    [Name |-> u.child \o "_" \o u.col \o "_fkey",
     ChildSchema |-> "public", ChildTable |-> u.child, ChildColumns |-> <<u.col>>,
     ParentSchema |-> "public", ParentTable |-> u.parent, ParentColumns |-> <<"id">>,
     IsSelfRef |-> ("public" = "public" /\ u.child = u.parent),
     Virtual |-> "", JSONPath |-> ""]

\* the Table Introspect returns for table name when the database holds the
\* constraints S (indexes into FKUniverse)
MkTable(name, S) ==
    LET mine == SelectSeq(FKUniverse, LAMBDA u : u.child = name /\ \E i \in S : FKUniverse[i] = u)
    IN  [Schema |-> "public", Name |-> name,
         Columns |-> <<[Name |-> "id", Nullable |-> FALSE]>>
                     \o Map(mine, LAMBDA u : [Name |-> u.col, Nullable |-> u.nullable]),
         PrimaryKey |-> <<"id">>,
         ForeignKeys |-> Map(mine, MkFK)]

MkCatalog(S) == [k \in Range(TableKeys) |->
                 MkTable(TableNames[CHOOSE i \in 1..Len(TableNames) : TableKeys[i] = k], S)]

Catalogs == {MkCatalog(S) : S \in {X \in SUBSET (1..Len(FKUniverse)) : Cardinality(X) <= MaxFKs}}

\* the catalog with the one constraint b.a_id -> a
ChainCatalog == MkCatalog({4})

RECURSIVE Prod(_)
Prod(sets) ==
    IF sets = <<>> THEN {<<>>}
    ELSE {<<x>> \o r : x \in Head(sets), r \in Prod(Tail(sets))}

\* the contents a table may have: one row per identifier, in the order of the
\* identifiers; a foreign key column holds the identifier of a row of the
\* parent (every table holds all identifiers, so every constraint is met) or,
\* when nullable, NULL
Contents(t) ==
    Prod([i \in 1..MaxId |->
        {<<IdNames[i]>> \o f :
            f \in Prod([c \in 1..(Len(t.Columns) - 1) |->
                    Ids \cup (IF t.Columns[c + 1].Nullable THEN {NULL} ELSE {})])}])

\* the content of table key as the run meets it: what it read before, or,
\* at the first query on the table, any content the table may have
ContentChoices(key) == IF key \in DOMAIN db THEN {db[key]} ELSE Contents(tables[key])

WithContent(key, c) == [k \in DOMAIN db \cup {key} |-> IF k = key THEN c ELSE db[k]]

\* cfg.Roots of the runs that vary the data: one to MaxRoots tables of the
\* catalog, in the order of their names; a single root with either WHERE
\* text, several roots with the selective one
RECURSIVE RootSeqs(_, _)
RootSeqs(from, n) ==
    {<<>>} \cup
    (IF n = 0 THEN {}
     ELSE UNION {{<<[Table |-> TableNames[i], Where |-> "id = '1'"]>> \o r :
                     r \in RootSeqs(i + 1, n - 1)} :
                 i \in from..Len(TableNames)})

DataRoots == (RootSeqs(1, MaxRoots) \ {<<>>})
             \cup {<<[Table |-> TableNames[i], Where |-> ""]>> : i \in 1..Len(TableNames)}

\* cfg.Roots of the runs that vary the configuration: any sequence of up to
\* MaxRoots entries naming a table, a name that is no table, or nothing
ConfigRootNames == {"a", "b", "zz", ""}
ConfigRoots ==
    UNION {[1..n -> {[Table |-> nm, Where |-> ""] : nm \in ConfigRootNames}] : n \in 0..MaxRoots}

GoodConnection == [Host |-> "h", Database |-> "d", User |-> "u"]
Connections == [Host : {"", "h"}, Database : {"", "d"}, User : {"", "u"}]

Paths == {"out.sql", "cfg.sql"}
NoFile == [exists |-> FALSE, lines |-> <<>>]
OldFile == [exists |-> TRUE, lines |-> <<"old">>]

NoSelfRef == [k |-> 0, seed |-> <<>>]

\* what no run has touched yet
Fresh ==
    /\ pc = "preRun"
    /\ db = EmptyMap
    /\ g = NoGraph
    /\ order = <<>>
    /\ idx = 0
    /\ collected = EmptyMap
    /\ collectedPKs = EmptyMap
    /\ queries = <<>>
    /\ stdout = <<>>
    /\ w = <<>>
    /\ logged = <<>>
    /\ connected = FALSE
    /\ sr = NoSelfRef
    /\ err = ""

\* runs that vary the catalog, the content and the roots
InitData ==
    /\ Fresh
    /\ tables \in Catalogs
    /\ \E roots \in DataRoots :
          cfg = [Connection |-> GoodConnection, Roots |-> roots, ExcludeTables |-> {},
                 Output |-> "", VirtualRelations |-> <<>>]
    /\ \E dry \in BOOLEAN :
          flags = [cfgPath |-> "c.yaml", outputPath |-> "", dryRun |-> dry, verbose |-> FALSE]
    /\ files = [p \in Paths |-> NoFile]

\* runs that vary the configuration file
InitConfig ==
    /\ Fresh
    /\ tables = ChainCatalog
    /\ \E conn \in Connections, roots \in ConfigRoots :
          cfg = [Connection |-> conn, Roots |-> roots, ExcludeTables |-> {},
                 Output |-> "", VirtualRelations |-> <<>>]
    /\ \E path \in {"", "c.yaml"} :
          flags = [cfgPath |-> path, outputPath |-> "", dryRun |-> FALSE, verbose |-> FALSE]
    /\ files = [p \in Paths |-> NoFile]

\* runs that vary the flags, the excluded tables, the output and the files
InitOutput ==
    /\ Fresh
    /\ tables = ChainCatalog
    /\ \E excl \in {{}, {"a"}, {"b"}}, out \in {"", "cfg.sql"} :
          cfg = [Connection |-> GoodConnection,
                 Roots |-> <<[Table |-> "a", Where |-> "id = '1'"]>>,
                 ExcludeTables |-> excl, Output |-> out,
                 VirtualRelations |-> <<>>]
    /\ \E outputPath \in {"", "-", "out.sql"}, dry \in BOOLEAN, verbose \in BOOLEAN :
          flags = [cfgPath |-> "c.yaml", outputPath |-> outputPath,
                   dryRun |-> dry, verbose |-> verbose]
    /\ \E f \in {NoFile, OldFile} : files = [p \in Paths |-> f]

Init == InitData \/ InitConfig \/ InitOutput


-----------------------------------------------------------------------------
(* The extract command: rootCmd.PersistentPreRunE, then extractCmd.RunE   *)
(* step by step, Extract inlined at its call.                             *)

Fail(msg) == /\ pc' = "failed"
             /\ err' = msg

\* config.validate, after applyEnv filled the connection in
validate(c) ==
    IF c.Connection.Host = "" THEN "connection.host is required"
    ELSE IF c.Connection.Database = "" THEN "connection.database is required"
    ELSE IF c.Connection.User = "" THEN "connection.user is required"
    ELSE ""

\* Config.ValidateForExtract
ValidateForExtract(c) ==
    IF Len(c.Roots) = 0 THEN "at least one root table must be specified in config"
    ELSE IF \E i \in 1..Len(c.Roots) : c.Roots[i].Table = ""
    THEN LET i == CHOOSE k \in 1..Len(c.Roots) :
                     /\ c.Roots[k].Table = ""
                     /\ \A j \in 1..(k - 1) : c.Roots[j].Table # ""
         IN  "roots[" \o ToString(i - 1) \o "].table is required"
    ELSE ""

\* rootCmd.PersistentPreRunE: --config is required; config.Load reads and
\* parses the file (which may fail) and validates it
PreRun ==
    /\ pc = "preRun"
    /\ \E loads \in BOOLEAN :
          IF flags.cfgPath = "" THEN Fail("--config is required")
          ELSE IF ~loads THEN Fail("reading config file")
          ELSE IF validate(cfg) # "" THEN Fail("invalid config: " \o validate(cfg))
          ELSE pc' = "connect" /\ err' = err
    /\ UNCHANGED <<cfg, flags, tables, db, g, order, idx, collected, collectedPKs,
                   queries, stdout, w, files, logged, connected, sr>>

\* RunE: db.NewPool connects and pings
Connect ==
    /\ pc = "connect"
    /\ connected' = TRUE
    /\ \E ok \in BOOLEAN :
          IF ok THEN pc' = "validate" /\ err' = err
          ELSE Fail("connecting to database")
    /\ UNCHANGED <<cfg, flags, tables, db, g, order, idx, collected, collectedPKs,
                   queries, stdout, w, files, logged, sr>>

\* RunE: cfg.ValidateForExtract
Validate ==
    /\ pc = "validate"
    /\ IF ValidateForExtract(cfg) # "" THEN Fail(ValidateForExtract(cfg))
       ELSE pc' = "introspect" /\ err' = err
    /\ UNCHANGED <<cfg, flags, tables, db, g, order, idx, collected, collectedPKs,
                   queries, stdout, w, files, logged, connected, sr>>

\* RunE: schema.Introspect reads the catalog, or fails
Introspect ==
    /\ pc = "introspect"
    /\ \E ok \in BOOLEAN :
          IF ok THEN pc' = "build" /\ err' = err
          ELSE Fail("introspecting schema")
    /\ UNCHANGED <<cfg, flags, tables, db, g, order, idx, collected, collectedPKs,
                   queries, stdout, w, files, logged, connected, sr>>

\* RunE: graph.Build; the tables share their records with the graph, so
\* the virtual foreign keys Build appends show in them too
BuildGraph ==
    /\ pc = "build"
    /\ \E iter \in Perms(DOMAIN FilterExcluded(tables, cfg.ExcludeTables)) :
          g' = Build(tables, cfg.ExcludeTables, cfg.VirtualRelations, iter)
    /\ tables' = [k \in DOMAIN tables |-> IF k \in DOMAIN g'.Tables THEN g'.Tables[k] ELSE tables[k]]
    /\ pc' = "checkRoots"
    /\ UNCHANGED <<cfg, flags, db, order, idx, collected, collectedPKs,
                   queries, stdout, w, files, logged, connected, sr, err>>

\* a variant without the root validation
UnknownRootUnchecked(gr, roots) == 0

\* the root a root validation fails on, or 0
UnknownRoot(gr, roots) ==
    IF \E i \in 1..Len(roots) : \A k \in DOMAIN gr.Tables : gr.Tables[k].Name # roots[i].Table
    THEN CHOOSE i \in 1..Len(roots) :
            /\ \A k \in DOMAIN gr.Tables : gr.Tables[k].Name # roots[i].Table
            /\ \A j \in 1..(i - 1) : \E k \in DOMAIN gr.Tables : gr.Tables[k].Name = roots[j].Table
    ELSE 0

\* RunE: every root names a table of the graph; then extract.New
CheckRoots ==
    /\ pc = "checkRoots"
    /\ IF UnknownRoot(g, cfg.Roots) # 0
       THEN /\ Fail("root table \"" \o cfg.Roots[UnknownRoot(g, cfg.Roots)].Table
                    \o "\" not found in schema")
            /\ UNCHANGED <<collected, collectedPKs>>
       ELSE /\ pc' = "openOutput"
            /\ err' = err
            /\ collected' = [k \in DOMAIN g.Tables |-> <<>>]
            /\ collectedPKs' = [k \in DOMAIN g.Tables |-> <<>>]
    /\ UNCHANGED <<cfg, flags, tables, db, g, order, idx,
                   queries, stdout, w, files, logged, connected, sr>>

\* RunE: the output path, --output before the configuration's
OutPath == IF flags.outputPath = "" THEN cfg.Output ELSE flags.outputPath

\* a variant that opens the output path under --dry-run too
ToStdoutIgnoringDryRun == OutPath = "" \/ OutPath = "-"

\* RunE: where the writer handed to Extract writes
ToStdout == flags.dryRun \/ OutPath = "" \/ OutPath = "-"

\* RunE: os.Stdout, or os.Create(outPath), which empties the file and may fail
OpenOutput ==
    /\ pc = "openOutput"
    /\ IF ToStdout THEN pc' = "topo" /\ err' = err /\ files' = files
       ELSE \E ok \in BOOLEAN :
               IF ok THEN /\ files' = [p \in DOMAIN files \cup {OutPath} |->
                                         IF p = OutPath THEN [exists |-> TRUE, lines |-> <<>>]
                                         ELSE files[p]]
                          /\ pc' = "topo"
                          /\ err' = err
               ELSE Fail("creating output file") /\ files' = files
    /\ UNCHANGED <<cfg, flags, tables, db, g, order, idx, collected, collectedPKs,
                   queries, stdout, w, logged, connected, sr>>

\* where Extract goes after the table at position i of the traversal
AfterTable(i, ord) ==
    IF i < Len(ord) THEN [pc |-> "extract", idx |-> i + 1]
    ELSE IF flags.dryRun THEN [pc |-> "done", idx |-> 0]
    ELSE [pc |-> "header", idx |-> 0]

\* Extract: graph.TopoSortAll, the warning when there is a cycle, the order
Topo ==
    /\ pc = "topo"
    /\ \E iter \in Perms(DOMAIN g.Tables) :
          LET topoResult == TopoSortAll(g, iter)
          IN  /\ order' = ExtractOrder(topoResult)
              /\ logged' = IF topoResult.HasCycle
                           THEN logged \o <<<<"WARNING: Circular dependencies detected",
                                              topoResult.CycleTables>>,
                                            <<"Tables in cycles will be handled with session_replication_role = 'replica'">>>>
                           ELSE logged
              /\ pc' = AfterTable(0, order').pc
              /\ idx' = AfterTable(0, order').idx
    /\ UNCHANGED <<cfg, flags, tables, db, g, collected, collectedPKs,
                   queries, stdout, w, files, connected, sr, err>>

TheE == [collected |-> collected, collectedPKs |-> collectedPKs,
         queries |-> queries, stdout |-> stdout]

SetE(E) == /\ collected' = E.collected
           /\ collectedPKs' = E.collectedPKs
           /\ queries' = E.queries
           /\ stdout' = E.stdout

\* the query extractRoot or extractChild builds for the table, NoQuery when
\* the table is passed over
TableQuery(gr, roots, pks, name) ==
    LET t == gr.Tables[name]
    IN  IF t.Name \in DOMAIN rootWhere(roots)
        THEN [query |-> buildRootQuery(t, rootWhere(roots)[t.Name]), args |-> <<>>]
        ELSE IF Len(gr.Parents[name]) > 0 THEN buildChildQuery(t, pks)
        ELSE [query |-> NoQuery, args |-> <<>>]

\* a variant that takes a table with parents for a child, root or not
extractTableParentsFirst(E, gr, roots, content, name, dryRun, verbose, out) ==
    LET t == gr.Tables[name]
    IN  IF Len(gr.Parents[name]) > 0
        THEN extractChild(E, gr.Tables, content, t, dryRun, verbose, out)
        ELSE IF t.Name \in DOMAIN rootWhere(roots)
        THEN extractRoot(E, gr.Tables, content, t, rootWhere(roots)[t.Name], dryRun, verbose, out)
        ELSE [E |-> E, err |-> ""]

\* the first half of the loop body of Extract for one table: extractRoot
\* for a root, extractChild for a table with parents, nothing otherwise
extractTable(E, gr, roots, content, name, dryRun, verbose, out) ==
    LET t == gr.Tables[name]
    IN  IF t.Name \in DOMAIN rootWhere(roots)
        THEN extractRoot(E, gr.Tables, content, t, rootWhere(roots)[t.Name], dryRun, verbose, out)
        ELSE IF Len(gr.Parents[name]) > 0
        THEN extractChild(E, gr.Tables, content, t, dryRun, verbose, out)
        ELSE [E |-> E, err |-> ""]

\* where Extract goes after the first half for the table at idx: into
\* extractSelfRef when the table has self-referencing keys and seeds
AfterFirstHalf(E) ==
    LET name == order[idx]
    IN  IF Len(g.SelfRefs[name]) > 0 /\ Len(E.collectedPKs[name]) > 0
        THEN [pc |-> "selfref", idx |-> idx, sr |-> [k |-> 1, seed |-> E.collectedPKs[name]]]
        ELSE [pc |-> AfterTable(idx, order).pc, idx |-> AfterTable(idx, order).idx,
              sr |-> NoSelfRef]

\* Extract: the table at idx; a query that is sent reads the table
ExtractTable ==
    /\ pc = "extract"
    /\ LET name == order[idx]
           q == TableQuery(g, cfg.Roots, collectedPKs, name)
       IN  IF flags.dryRun \/ q.query = NoQuery
           THEN LET r == extractTable(TheE, g, cfg.Roots, db, name, flags.dryRun,
                                      flags.verbose, [kind |-> "ok", after |-> 0])
                IN  /\ SetE(r.E)
                    /\ db' = db
                    /\ err' = err
                    /\ pc' = AfterFirstHalf(r.E).pc
                    /\ idx' = AfterFirstHalf(r.E).idx
                    /\ sr' = AfterFirstHalf(r.E).sr
           ELSE \E c \in ContentChoices(name) :
                  \E out \in Outcomes(ExecSelect(g.Tables, WithContent(name, c), q.query, q.args)) :
                    LET r == extractTable(TheE, g, cfg.Roots, WithContent(name, c), name,
                                          flags.dryRun, flags.verbose, out)
                    IN  /\ SetE(r.E)
                        /\ db' = WithContent(name, c)
                        /\ IF r.err # ""
                           THEN /\ Fail("extracting "
                                        \o (IF q.query.kind = "root" THEN "root " ELSE "child ")
                                        \o name \o ": " \o r.err)
                                /\ UNCHANGED <<idx, sr>>
                           ELSE /\ err' = err
                                /\ pc' = AfterFirstHalf(r.E).pc
                                /\ idx' = AfterFirstHalf(r.E).idx
                                /\ sr' = AfterFirstHalf(r.E).sr
    /\ UNCHANGED <<cfg, flags, tables, g, order, w, files, logged, connected>>

\* Extract: one round of extractSelfRef for the table at idx
ExtractSelfRef ==
    /\ pc = "selfref"
    /\ LET name == order[idx]
           t == g.Tables[name]
           fk == g.SelfRefs[name][sr.k]
           b == buildSelfRefQuery(t, fk, sr.seed)
       IN  \E c \in ContentChoices(name) :
             \E out \in (IF b.query = NoQuery THEN {[kind |-> "ok", after |-> 0]}
                         ELSE {o \in Outcomes(<<>>) : o.kind \in {"ok", "query", "rowsErr"}}) :
               LET r == selfRefRound(TheE, g.Tables, WithContent(name, c), t, fk, sr.seed,
                                     flags.dryRun, flags.verbose, out)
               IN  /\ SetE(r.E)
                   /\ db' = IF b.query = NoQuery THEN db ELSE WithContent(name, c)
                   /\ IF ~r.ends
                      THEN pc' = "hung" /\ UNCHANGED <<idx, sr, err>>
                      ELSE IF r.err # ""
                      THEN Fail("extracting self-ref " \o name \o ": " \o r.err)
                           /\ UNCHANGED <<idx, sr>>
                      ELSE IF sr.k < Len(g.SelfRefs[name])
                      THEN /\ sr' = [sr EXCEPT !.k = @ + 1]
                           /\ UNCHANGED <<pc, idx, err>>
                      ELSE /\ sr' = NoSelfRef
                           /\ pc' = AfterTable(idx, order).pc
                           /\ idx' = AfterTable(idx, order).idx
                           /\ err' = err
    /\ UNCHANGED <<cfg, flags, tables, g, order, w, files, logged, connected>>

\* what a write through the writer of Extract changes: the writer's lines,
\* and the terminal or the file behind it
Emit(lines) ==
    /\ w' = w \o lines
    /\ IF ToStdout
       THEN /\ stdout' = stdout \o lines
            /\ files' = files
       ELSE /\ files' = [files EXCEPT ![OutPath].lines = @ \o lines]
            /\ stdout' = stdout

\* Extract: cw.WriteHeader
WriteHeader ==
    /\ pc = "header"
    /\ \E ok \in BOOLEAN :
          IF ok THEN /\ Emit(HeaderLines)
                     /\ pc' = IF Len(order) > 0 THEN "emit" ELSE "footer"
                     /\ idx' = IF Len(order) > 0 THEN 1 ELSE 0
                     /\ err' = err
          ELSE Fail("write error") /\ UNCHANGED <<w, stdout, files, idx>>
    /\ UNCHANGED <<cfg, flags, tables, db, g, order, collected, collectedPKs,
                   queries, logged, connected, sr>>

\* Extract: cw.WriteTableData for the table at idx
WriteTableData ==
    /\ pc = "emit"
    /\ \E ok \in BOOLEAN :
          IF ok \/ Len(collected[order[idx]]) = 0
          THEN /\ Emit(TableDataLines(g.Tables[order[idx]], collected[order[idx]]))
               /\ pc' = IF idx < Len(order) THEN "emit" ELSE "footer"
               /\ idx' = IF idx < Len(order) THEN idx + 1 ELSE 0
               /\ err' = err
          ELSE Fail("writing " \o order[idx] \o ": write error")
               /\ UNCHANGED <<w, stdout, files, idx>>
    /\ UNCHANGED <<cfg, flags, tables, db, g, order, collected, collectedPKs,
                   queries, logged, connected, sr>>

\* Extract: cw.WriteFooter; then RunE reports the summary on stderr
WriteFooter ==
    /\ pc = "footer"
    /\ \E ok \in BOOLEAN :
          IF ok THEN Emit(FooterLines) /\ pc' = "done" /\ err' = err
          ELSE Fail("write error") /\ UNCHANGED <<w, stdout, files>>
    /\ UNCHANGED <<cfg, flags, tables, db, g, order, idx, collected, collectedPKs,
                   queries, logged, connected, sr>>

Next ==
    \/ PreRun
    \/ Connect
    \/ Validate
    \/ Introspect
    \/ BuildGraph
    \/ CheckRoots
    \/ OpenOutput
    \/ Topo
    \/ ExtractTable
    \/ ExtractSelfRef
    \/ WriteHeader
    \/ WriteTableData
    \/ WriteFooter

Spec == Init /\ [][Next]_vars

-----------------------------------------------------------------------------
(* Dry runs over every catalog the foreign keys of the model can form:    *)
(* the graph, the order and what the dry run prints, without any read of  *)
(* the data.                                                              *)

AllCatalogs == {MkCatalog(S) : S \in SUBSET (1..Len(FKUniverse))}

InitDry ==
    /\ Fresh
    /\ tables \in AllCatalogs
    /\ \E roots \in DataRoots :
          cfg = [Connection |-> GoodConnection, Roots |-> roots,
                 ExcludeTables |-> {}, Output |-> "", VirtualRelations |-> <<>>]
    /\ \E outputPath \in {"", "out.sql"} :
          flags = [cfgPath |-> "c.yaml", outputPath |-> outputPath, dryRun |-> TRUE,
                   verbose |-> FALSE]
    /\ files = [p \in Paths |-> NoFile]

NextDry ==
    \/ PreRun
    \/ Connect
    \/ Validate
    \/ Introspect
    \/ BuildGraph
    \/ CheckRoots
    \/ OpenOutput
    \/ Topo
    \/ ExtractTable

SpecDry == InitDry /\ [][NextDry]_vars

-----------------------------------------------------------------------------
(* Runs that vary the configuration, the flags and the files on the one   *)
(* catalog b.a_id -> a, which has no self-referencing key.                *)

InitSettings == InitConfig \/ InitOutput

NextSettings ==
    \/ PreRun
    \/ Connect
    \/ Validate
    \/ Introspect
    \/ BuildGraph
    \/ CheckRoots
    \/ OpenOutput
    \/ Topo
    \/ ExtractTable
    \/ WriteHeader
    \/ WriteTableData
    \/ WriteFooter

SpecSettings == InitSettings /\ [][NextSettings]_vars

-----------------------------------------------------------------------------
(* Runs on a parent table whose collected keys reach the value-set cap:   *)
(* table a holds n rows, b.a_id references a, a is the root.  The runs    *)
(* start where Extract has collected a and stands at the next table.      *)

\* the numbers of rows of a: around the cap
CapLens == {ValueSetCap - 1, ValueSetCap, ValueSetCap + 1, ValueSetCap + 2}

\* the rows of a (its one column is id), and their keys
BigRows(n) == [i \in 1..n |-> <<ToString(i)>>]

CapRoots == <<[Table |-> "a", Where |-> ""]>>

CapGraph == Build(ChainCatalog, {}, <<>>, TableKeys)

InitCap ==
    /\ pc = "extract"
    /\ tables = ChainCatalog
    /\ cfg = [Connection |-> GoodConnection, Roots |-> CapRoots,
              ExcludeTables |-> {}, Output |-> "", VirtualRelations |-> <<>>]
    /\ \E verbose \in BOOLEAN :
          flags = [cfgPath |-> "c.yaml", outputPath |-> "", dryRun |-> FALSE,
                   verbose |-> verbose]
    /\ g = CapGraph
    /\ order = ExtractOrder(TopoSortAll(CapGraph, TableKeys))
    /\ order[1] = "public.a"
    /\ idx = 2
    /\ \E n \in CapLens :
          /\ db = [k \in {"public.a"} |-> BigRows(n)]
          /\ LET r == extractRoot([collected |-> [k \in DOMAIN CapGraph.Tables |-> <<>>],
                                   collectedPKs |-> [k \in DOMAIN CapGraph.Tables |-> <<>>],
                                   queries |-> <<>>, stdout |-> <<>>],
                                  CapGraph.Tables, db, CapGraph.Tables["public.a"], "",
                                  FALSE, flags.verbose, [kind |-> "ok", after |-> n])
             IN  /\ collected = r.E.collected
                 /\ collectedPKs = r.E.collectedPKs
                 /\ queries = r.E.queries
                 /\ stdout = r.E.stdout
    /\ w = <<>>
    /\ files = [p \in Paths |-> NoFile]
    /\ logged = <<>>
    /\ connected = TRUE
    /\ sr = NoSelfRef
    /\ err = ""

NextCap ==
    \/ ExtractTable
    \/ WriteHeader
    \/ WriteTableData
    \/ WriteFooter

SpecCap == InitCap /\ [][NextCap]_vars

-----------------------------------------------------------------------------
(* Properties *)

\* strings.HasPrefix
HasPrefix(s, prefix) == Len(s) >= Len(prefix) /\ SubSeq(s, 1, Len(prefix)) = prefix

\* the position of x in the sequence s
Pos(s, x) == CHOOSE i \in 1..Len(s) : s[i] = x

\* the foreign keys of a table whose parent is in the graph
GraphFKs(gr, name) ==
    SelectSeq(gr.Tables[name].ForeignKeys, LAMBDA fk : ParentKey(fk) \in DOMAIN gr.Tables)

\* row of table name satisfies fk within the rows coll: its foreign key
\* columns are all NULL, or a row of the parent in coll carries their values
\* in the referenced columns
FKSatisfied(gr, coll, name, fk, row) ==
    LET t == gr.Tables[name]
        p == gr.Tables[ParentKey(fk)]
        n == Len(fk.ChildColumns)
    IN  \/ \A j \in 1..n : row[ColIdx(t, fk.ChildColumns[j])] = NULL
        \/ \E i \in 1..Len(coll[ParentKey(fk)]) : \A j \in 1..n :
              coll[ParentKey(fk)][i][ColIdx(p, fk.ParentColumns[j])]
                  = row[ColIdx(t, fk.ChildColumns[j])]

\* the run is a normal run that ended with its output written
NormalRunDone == pc = "done" /\ ~flags.dryRun

\* C1: after an extraction run on an acyclic foreign key graph, every
\* collected row of every table has, for every foreign key of the table
\* (self-referencing ones included), either all columns of the key NULL or
\* its parent row among the collected rows of the parent table.
C1_CollectedRowsHaveParents ==
    (NormalRunDone /\ ~TopoSortAll(g, order).HasCycle) =>
        \A name \in DOMAIN g.Tables :
            \A i \in 1..Len(collected[name]) :
                \A k \in 1..Len(GraphFKs(g, name)) :
                    FKSatisfied(g, collected, name, GraphFKs(g, name)[k], collected[name][i])

\* a run where table b, a child of a, was the root: rows of b are collected
\* and no row of a is
C1_RootWithoutItsParents ==
    /\ NormalRunDone
    /\ ~TopoSortAll(g, order).HasCycle
    /\ {"public.a", "public.b"} \subseteq DOMAIN g.Tables
    /\ \E fk \in Range(g.Tables["public.b"].ForeignKeys) : ParentKey(fk) = "public.a"
    /\ collected["public.b"] # <<>>
    /\ collected["public.a"] = <<>>

\* the tables the claim C2 is about: not a root, no self-referencing key,
\* foreign keys to two or more different parents
SeveralParents(gr, roots, name) ==
    /\ gr.Tables[name].Name \notin DOMAIN rootWhere(roots)
    /\ gr.SelfRefs[name] = <<>>
    /\ Cardinality({ParentKey(fk) : fk \in Range(GraphFKs(gr, name))}) >= 2

\* C2: every row collected by the child query of a table with foreign keys to
\* several different parents satisfies each of these keys (NULL columns, or
\* the referenced row among the collected rows of that parent), whichever of
\* the parents have collected rows.
C2_EveryForeignKeyApplied ==
    NormalRunDone =>
        \A name \in DOMAIN g.Tables :
            SeveralParents(g, cfg.Roots, name) =>
                \A i \in 1..Len(collected[name]) :
                    \A k \in 1..Len(GraphFKs(g, name)) :
                        FKSatisfied(g, collected, name, GraphFKs(g, name)[k], collected[name][i])

\* a run where c has keys to a and to b, rows of c were collected by its child
\* query, and one of the two parents has no collected row
C2_ParentWithoutRows ==
    /\ NormalRunDone
    /\ SeveralParents(g, cfg.Roots, "public.c")
    /\ collected["public.c"] # <<>>
    /\ \E fk \in Range(GraphFKs(g, "public.c")) : collected[ParentKey(fk)] = <<>>

\* the tables x depends on through foreign keys of the graph, transitively
RECURSIVE Ancestors(_, _, _)
Ancestors(gr, frontier, seen) ==
    LET next == UNION {Range(gr.Parents[x]) : x \in frontier} \ seen
    IN  IF next = {} THEN seen ELSE Ancestors(gr, next, seen \cup next)

\* the edge lies on a directed cycle: its parent depends on its child
OnCycle(gr, e) == e.ChildTable \in Ancestors(gr, {e.ParentTable}, {})

\* C3: in the traversal order of Extract (the order of the sort followed by
\* the cycle tables), the parent of every non-self foreign key edge that is
\* not on a directed cycle stands before the child.
C3_ParentBeforeChild ==
    order # <<>> =>
        \A k \in 1..Len(g.Edges) :
            ~OnCycle(g, g.Edges[k]) =>
                Pos(order, g.Edges[k].ParentTable) < Pos(order, g.Edges[k].ChildTable)

\* an order in which c, whose parent a is on a cycle with b, is traversed
\* before a
C3_ChildOfCycleMemberFirst ==
    /\ order # <<>>
    /\ \E k \in 1..Len(g.Edges) :
          /\ g.Edges[k].ChildTable = "public.c"
          /\ g.Edges[k].ParentTable = "public.a"
          /\ ~OnCycle(g, g.Edges[k])
          /\ \E j \in 1..Len(g.Edges) : OnCycle(g, g.Edges[j]) /\ g.Edges[j].ChildTable = "public.a"
          /\ Pos(order, "public.c") < Pos(order, "public.a")

\* C4: the traversal order of a run is the one every iteration order of the
\* table map gives: the order is the same for all of them.
C4_OrderIndependentOfIteration ==
    order # <<>> =>
        \A iter \in Perms(DOMAIN g.Tables) : ExtractOrder(TopoSortAll(g, iter)) = order

\* an order that another iteration order of the same graph changes, on a
\* graph without any foreign key
C4_TwoOrders ==
    /\ order # <<>>
    /\ g.Edges = <<>>
    /\ \E iter \in Perms(DOMAIN g.Tables) : ExtractOrder(TopoSortAll(g, iter)) # order

\* C5: in a normal run the writer has received something only when the
\* traversal is over and every query sent was answered without error; after a
\* query that failed the command has failed with the error of the extraction
\* and the writer has received nothing.
C5_WriterOnlyAfterAllQueries ==
    ~flags.dryRun =>
        /\ w # <<>> =>
              /\ pc \in {"emit", "footer", "done", "failed"}
              /\ \A i \in 1..Len(queries) : queries[i].ok
        /\ (\E i \in 1..Len(queries) : ~queries[i].ok) =>
              /\ pc = "failed"
              /\ HasPrefix(err, "extracting ")
              /\ w = <<>>

\* a run that failed at its second or a later query, with rows collected
\* before
C5_LateQueryFailure ==
    /\ ~flags.dryRun
    /\ pc = "failed"
    /\ Len(queries) >= 2
    /\ ~queries[Len(queries)].ok
    /\ \E name \in DOMAIN collected : collected[name] # <<>>
    /\ w = <<>>

\* C6: under --dry-run no query is sent to the executor, the writer receives
\* nothing, and no file is created or emptied.
C6_DryRunTouchesNothing ==
    flags.dryRun =>
        /\ queries = <<>>
        /\ w = <<>>
        /\ \A p \in DOMAIN files : files[p] \in {NoFile, OldFile}

\* a dry run with an output path that ran to its end and printed queries
C6_DryRunWithOutputPath ==
    /\ flags.dryRun
    /\ pc = "done"
    /\ OutPath \notin {"", "-"}
    /\ stdout # <<>>

\* every content the tables of the catalog may have
AllContents ==
    {[k \in Range(TableKeys) |-> c[CHOOSE i \in 1..Len(TableKeys) : TableKeys[i] = k]] :
        c \in Prod([i \in 1..Len(TableKeys) |-> Contents(tables[TableKeys[i]])])}

\* extractSelfRef of a normal run without errors, from the k-th key on
RECURSIVE SelfRefFrom(_, _, _, _, _, _)
SelfRefFrom(E, gr, content, name, k, seed) ==
    IF k > Len(gr.SelfRefs[name]) THEN [E |-> E, ends |-> TRUE]
    ELSE LET r == selfRefRound(E, gr.Tables, content, gr.Tables[name], gr.SelfRefs[name][k],
                               seed, FALSE, FALSE, [kind |-> "ok", after |-> 0])
         IN  IF r.ends THEN SelfRefFrom(r.E, gr, content, name, k + 1, seed)
             ELSE [E |-> r.E, ends |-> FALSE]

\* the tables for which a normal run on the content sends a root or a child
\* query, every query answered without error: the loop of Extract from the
\* table at position i on
RECURSIVE NormalRunQueried(_, _, _, _, _, _)
NormalRunQueried(E, gr, roots, content, ord, i) ==
    IF i > Len(ord) THEN {}
    ELSE LET name == ord[i]
             q == TableQuery(gr, roots, E.collectedPKs, name)
             rows == IF q.query = NoQuery THEN <<>>
                     ELSE ExecSelect(gr.Tables, content, q.query, q.args)
             r == extractTable(E, gr, roots, content, name, FALSE, FALSE,
                               [kind |-> "ok", after |-> Len(rows)])
             s == IF Len(gr.SelfRefs[name]) > 0 /\ Len(r.E.collectedPKs[name]) > 0
                  THEN SelfRefFrom(r.E, gr, content, name, 1, r.E.collectedPKs[name])
                  ELSE [E |-> r.E, ends |-> TRUE]
         IN  (IF q.query = NoQuery THEN {} ELSE {name})
             \cup (IF s.ends THEN NormalRunQueried(s.E, gr, roots, content, ord, i + 1) ELSE {})

\* the extractor extract.New returns
NewE(gr) == [collected |-> [k \in DOMAIN gr.Tables |-> <<>>],
             collectedPKs |-> [k \in DOMAIN gr.Tables |-> <<>>],
             queries |-> <<>>, stdout |-> <<>>]

\* the dry run printed the root or child query of the table
QueryPrinted(name) ==
    \E i \in 1..Len(stdout) : stdout[i][1] \in {"[root]", "[child]"} /\ stdout[i][2] = name

\* C7: a dry run that ended has printed the query of every table for which a
\* normal run, on whatever content the database has, sends a root or a child
\* query.
C7_DryRunPrintsEveryQuery ==
    (flags.dryRun /\ pc = "done") =>
        \A content \in AllContents :
            \A name \in NormalRunQueried(NewE(g), g, cfg.Roots, content, order, 1) :
                QueryPrinted(name)

\* a dry run that ended without the query of table b, for which the normal
\* run sends a child query
C7_ChildQueryNotPrinted ==
    /\ flags.dryRun
    /\ pc = "done"
    /\ QueryPrinted("public.a")
    /\ ~QueryPrinted("public.b")
    /\ \E content \in AllContents :
          "public.b" \in NormalRunQueried(NewE(g), g, cfg.Roots, content, order, 1)

\* some configured root names no table of the graph
SomeRootUnknown ==
    \E i \in 1..Len(cfg.Roots) :
        \A k \in DOMAIN g.Tables : g.Tables[k].Name # cfg.Roots[i].Table

\* the error of the root validation
IsUnknownRootError(e) == HasPrefix(e, "root table ")

\* C8: once the graph is built, a root that names no table of the graph makes
\* the command fail with the unknown-root error, with no extraction query
\* sent, no output file opened and nothing written; when every root names a
\* table the command never fails with that error.
C8_UnknownRootFailsFirst ==
    g # NoGraph =>
        /\ SomeRootUnknown =>
              /\ pc \in {"checkRoots", "failed"}
              /\ pc = "failed" => IsUnknownRootError(err)
              /\ queries = <<>>
              /\ w = <<>>
              /\ stdout = <<>>
              /\ \A p \in DOMAIN files : files[p] \in {NoFile, OldFile}
        /\ ~SomeRootUnknown => ~IsUnknownRootError(err)

\* a run that failed on its second root, the first one being a table, or on
\* a root that exclude_tables removed
C8_UnknownRootReported ==
    /\ pc = "failed"
    /\ IsUnknownRootError(err)
    /\ \/ Len(cfg.Roots) = 2 /\ cfg.Roots[1].Table = "a"
       \/ cfg.Roots[1].Table \in cfg.ExcludeTables

\* the errors of the validation of the configuration
ConfigErrors ==
    {"invalid config: " \o validate(cfg), ValidateForExtract(cfg)} \ {"invalid config: ", ""}

\* C9: a command that failed on the validation of the configuration, the
\* checks of extract included, has attempted no connection to the database.
C9_ConfigErrorsBeforeConnect ==
    (pc = "failed" /\ err \in ConfigErrors) => ~connected

\* a configuration without roots is refused after the connection was made
C9_NoRootsAfterConnect ==
    /\ pc = "failed"
    /\ cfg.Roots = <<>>
    /\ err = ValidateForExtract(cfg)
    /\ connected

\* the lines log.Printf writes for a cycle
CycleWarnings == {"WARNING: Circular dependencies detected",
                  "Tables in cycles will be handled with session_replication_role = 'replica'"}

\* a warning other than those of the cycles was logged
CapWarningLogged == \E l \in 1..Len(logged) : logged[l][1] \notin CycleWarnings

\* the child queries sent for a table whose one foreign key references a
\* parent with more collected keys than the cap
OverCapQueries ==
    {i \in 1..Len(queries) :
        /\ queries[i].query.kind = "child"
        /\ Len(GraphFKs(g, queries[i].query.table)) = 1
        /\ Len(collectedPKs[ParentKey(GraphFKs(g, queries[i].query.table)[1])]) > ValueSetCap}

\* the child query binds the first ValueSetCap keys of its parent, in the
\* order of their collection
BindsFirstKeys(i) ==
    LET pks == collectedPKs[ParentKey(GraphFKs(g, queries[i].query.table)[1])]
    IN  queries[i].args = [j \in 1..ValueSetCap |-> pks[j][1]]

\* C10: a child query for a parent with more than ValueSetCap collected keys
\* binds exactly the first ValueSetCap of them in collection order, and a
\* warning about the cap is logged.
C10_CapTruncatesAndWarns ==
    \A i \in OverCapQueries : BindsFirstKeys(i) /\ CapWarningLogged

\* a child query over the cap that binds the first ValueSetCap keys while
\* nothing was logged
C10_TruncatedWithoutWarning ==
    \E i \in OverCapQueries : BindsFirstKeys(i) /\ logged = <<>>

\* the graph is the mutual cycle a.b_id -> b, b.a_id -> a and nothing else
MutualCycle ==
    {<<e.ChildTable, e.ParentTable>> : e \in Range(g.Edges)}
        = {<<"public.a", "public.b">>, <<"public.b", "public.a">>}

\* the writer received a COPY block of the table
CopyBlockFor(name) == \E i \in 1..Len(w) : HasPrefix(w[i], "COPY " \o name \o " ")

\* the tables the cycle warning of Extract named
WarnedCycleTables ==
    UNION {Range(logged[l][2]) : l \in {k \in 1..Len(logged) :
                                           logged[k][1] = "WARNING: Circular dependencies detected"}}

\* C11: with a and b in a mutual cycle and a the root, all its rows selected
\* (so every row of b references a selected row), a run that ended has
\* reported the cycle tables a and b and has written a COPY block for a and
\* one for b, in whichever order the two were traversed.
C11_CycleMembersBothEmitted ==
    (NormalRunDone /\ MutualCycle /\ cfg.Roots = <<[Table |-> "a", Where |-> ""]>>) =>
        /\ WarnedCycleTables = {"public.a", "public.b"}
        /\ CopyBlockFor("public.a")
        /\ CopyBlockFor("public.b")

\* such a run in which b was traversed before a: no row of b is collected
C11_CycleMemberSkipped ==
    /\ NormalRunDone
    /\ MutualCycle
    /\ cfg.Roots = <<[Table |-> "a", Where |-> ""]>>
    /\ Pos(order, "public.b") < Pos(order, "public.a")
    /\ collected["public.a"] # <<>>
    /\ collected["public.b"] = <<>>
    /\ ~CopyBlockFor("public.b")

-----------------------------------------------------------------------------
(* Runs on one table with a self-referencing key: a(id, parent_id) with   *)
(* parent_id -> a.id, every content of its rows 1 .. MaxTreeId.           *)

\* rows of the table of the hierarchy
MaxTreeId == 3

TreeIds == {IdNames[i] : i \in 1..MaxTreeId}

TreeCatalog == MkCatalog({3})

\* every content of a: row i has id i and any parent, or none
TreeContents ==
    Prod([i \in 1..MaxTreeId |-> {<<IdNames[i], p>> : p \in TreeIds \cup {NULL}}])

InitTree ==
    /\ pc = "preRun"
    /\ tables = TreeCatalog
    /\ \E c \in TreeContents : db = [k \in {"public.a"} |-> c]
    /\ \E where \in WhereTexts :
          cfg = [Connection |-> GoodConnection,
                 Roots |-> <<[Table |-> "a", Where |-> where]>>,
                 ExcludeTables |-> {}, Output |-> "", VirtualRelations |-> <<>>]
    /\ flags = [cfgPath |-> "c.yaml", outputPath |-> "", dryRun |-> FALSE, verbose |-> FALSE]
    /\ g = NoGraph
    /\ order = <<>>
    /\ idx = 0
    /\ collected = EmptyMap
    /\ collectedPKs = EmptyMap
    /\ queries = <<>>
    /\ stdout = <<>>
    /\ w = <<>>
    /\ files = [p \in Paths |-> NoFile]
    /\ logged = <<>>
    /\ connected = FALSE
    /\ sr = NoSelfRef
    /\ err = ""

SpecTree == InitTree /\ [][Next]_vars

\* the rows of the table that a row of S references through fk, and the rows
\* these reference, and so on: the transitive ancestors of S, S included
RECURSIVE WithAncestors(_, _, _, _)
WithAncestors(t, fk, rows, S) ==
    LET up == {x \in rows : \E r \in S : \A j \in 1..Len(fk.ChildColumns) :
                  /\ r[ColIdx(t, fk.ChildColumns[j])] # NULL
                  /\ x[ColIdx(t, fk.ParentColumns[j])] = r[ColIdx(t, fk.ChildColumns[j])]}
    IN  IF up \subseteq S THEN S ELSE WithAncestors(t, fk, rows, S \cup up)

\* a step in which extractSelfRef of a table with one self-referencing key
\* returned without error
SelfRefExpanded ==
    /\ pc = "selfref"
    /\ pc' \notin {"selfref", "hung", "failed"}
    /\ Len(g.SelfRefs[order[idx]]) = 1

-----------------------------------------------------------------------------
\* C13: at every point of an extraction, for every table with a primary key,
\* collectedPKs has one entry per collected row, the i-th entry is the key of
\* the i-th row, and no key occurs twice; root and child collection and every
\* self-reference merge keep it so.
C13_PKsMirrorRows ==
    \A name \in DOMAIN collected :
        HasPK(g.Tables[name]) =>
            /\ name \in DOMAIN collectedPKs
            /\ Len(collectedPKs[name]) = Len(collected[name])
            /\ \A i \in 1..Len(collected[name]) :
                  collectedPKs[name][i] = extractPK(g.Tables[name], collected[name][i])
            /\ \A i, j \in 1..Len(collectedPKs[name]) :
                  collectedPKs[name][i] = collectedPKs[name][j] => i = j

\* a table with two self-referencing keys after both merges: rows were
\* collected by the root query and added by the expansion
C13_MergedTwice ==
    /\ pc = "done"
    /\ "public.a" \in DOMAIN g.SelfRefs
    /\ Len(g.SelfRefs["public.a"]) = 2
    /\ cfg.Roots = <<[Table |-> "a", Where |-> "id = '1'"]>>
    /\ Len(collected["public.a"]) = 2
    /\ Len(collectedPKs["public.a"]) = 2

-----------------------------------------------------------------------------
(* Emission of rows whose values are nil, bools and strings with the      *)
(* characters the COPY text format treats specially: table                *)
(* a(id text, flag boolean NULL, note text NULL), from the traversal on.  *)

\* the longest string value of a row
MaxStrLen == 2

EscAlphabet == {"\\", "\t", "\n", "\r", "a", "N", "t"}

RECURSIVE StringsUpTo(_)
StringsUpTo(n) ==
    IF n = 0 THEN {""}
    ELSE LET S == StringsUpTo(n - 1) IN S \cup {s \o c : s \in S, c \in EscAlphabet}

EscTable ==
    [Schema |-> "public", Name |-> "a",
     Columns |-> <<[Name |-> "id", DataType |-> "text", Nullable |-> FALSE],
                   [Name |-> "flag", DataType |-> "boolean", Nullable |-> TRUE],
                   [Name |-> "note", DataType |-> "text", Nullable |-> TRUE]>>,
     PrimaryKey |-> <<"id">>,
     ForeignKeys |-> <<>>]

EscCatalog == [k \in {"public.a"} |-> EscTable]

EscGraph == Build(EscCatalog, {}, <<>>, <<"public.a">>)

\* the contents of a: no row, one row of any values, or that row and a second
EscContents ==
    LET first == {<<"1", flag, note>> : flag \in {NULL, BoolTrue, BoolFalse},
                                        note \in StringsUpTo(MaxStrLen) \cup {NULL}}
    IN  {<<>>} \cup {<<r>> : r \in first} \cup {<<r, <<"2", BoolFalse, NULL>>>> : r \in first}

InitEscape ==
    /\ pc = "extract"
    /\ tables = EscCatalog
    /\ cfg = [Connection |-> GoodConnection, Roots |-> <<[Table |-> "a", Where |-> ""]>>,
              ExcludeTables |-> {}, Output |-> "", VirtualRelations |-> <<>>]
    /\ flags = [cfgPath |-> "c.yaml", outputPath |-> "", dryRun |-> FALSE, verbose |-> FALSE]
    /\ g = EscGraph
    /\ order = ExtractOrder(TopoSortAll(EscGraph, <<"public.a">>))
    /\ idx = 1
    /\ \E c \in EscContents : db = [k \in {"public.a"} |-> c]
    /\ collected = [k \in DOMAIN EscGraph.Tables |-> <<>>]
    /\ collectedPKs = [k \in DOMAIN EscGraph.Tables |-> <<>>]
    /\ queries = <<>>
    /\ stdout = <<>>
    /\ w = <<>>
    /\ files = [p \in Paths |-> NoFile]
    /\ logged = <<>>
    /\ connected = TRUE
    /\ sr = NoSelfRef
    /\ err = ""

SpecEscape == InitEscape /\ [][NextCap]_vars

\* the pieces of s between the occurrences of the character sep
RECURSIVE SplitAcc(_, _, _, _)
SplitAcc(s, sep, piece, done) ==
    IF s = "" THEN Append(done, piece)
    ELSE IF Head(s) = sep THEN SplitAcc(Tail(s), sep, "", Append(done, piece))
    ELSE SplitAcc(Tail(s), sep, piece \o Head(s), done)

SplitOn(s, sep) == SplitAcc(s, sep, "", <<>>)

\* the output as a reader of the file sees it: cut at every newline
OutputLines == Flatten([i \in 1..Len(w) |-> SplitOn(w[i], "\n")])

\* the names between the parentheses of a COPY line
CopyColumns(line, name) ==
    LET open == Len("COPY " \o name \o " (")
        close == Len(") FROM stdin;")
        list == SubSeq(line, open + 1, Len(line) - close)
    IN  Map(SplitOn(list, ","), LAMBDA x : IF HasPrefix(x, " ") THEN Tail(x) ELSE x)

\* the index of the terminator line that follows line i
BlockEnd(lines, i) == CHOOSE j \in i..Len(lines) + 1 :
    /\ j = Len(lines) + 1 \/ lines[j] = "\\."
    /\ \A k \in i..(j - 1) : lines[k] # "\\."

\* C14: for every emitted table the column list of the COPY line is the
\* table's columns in ordinal order, there is one line per collected row, and
\* every row line splits on tab into as many fields as there are columns,
\* whatever tabs, newlines, carriage returns and backslashes the values hold.
C14_RowsHaveColumnCountFields ==
    \A i \in 1..Len(OutputLines) :
        HasPrefix(OutputLines[i], "COPY ") =>
            \E name \in DOMAIN g.Tables :
                LET t == g.Tables[name]
                    end == BlockEnd(OutputLines, i + 1)
                IN  /\ HasPrefix(OutputLines[i], "COPY " \o name \o " (")
                    /\ CopyColumns(OutputLines[i], name) = ColumnNames(t)
                    /\ end <= Len(OutputLines)
                    /\ end - i - 1 = Len(collected[name])
                    /\ \A k \in (i + 1)..(end - 1) :
                          Len(SplitOn(OutputLines[k], "\t")) = Len(t.Columns)

\* a finished run that emitted a row whose note is a tab followed by a newline
C14_TabAndNewlineEmitted ==
    /\ pc = "done"
    /\ tables = EscCatalog
    /\ Len(collected["public.a"]) = 2
    /\ collected["public.a"][1] = <<"1", BoolTrue, "\t\n">>
    /\ w[4] = "COPY public.a (id, flag, note) FROM stdin;"
    /\ w[5] = "1\tt\t\\t\\n"

\* the text of a field read back by the COPY text format: backslash and a
\* character stand for n -> newline, r -> carriage return, t -> tab, and for
\* the character itself otherwise
RECURSIVE UnescapeAcc(_, _)
UnescapeAcc(s, done) ==
    IF s = "" THEN done
    ELSE IF Head(s) = "\\" /\ Len(s) >= 2
         THEN LET c == Head(Tail(s))
              IN  UnescapeAcc(Tail(Tail(s)),
                              done \o (CASE c = "n" -> "\n"
                                         [] c = "r" -> "\r"
                                         [] c = "t" -> "\t"
                                         [] OTHER -> c))
         ELSE UnescapeAcc(Tail(s), done \o Head(s))

\* the value COPY FROM stores for a field of a column of the given type: the
\* field \N is null; a boolean column reads t and f; a text column unescapes
DecodeCopyField(field, dataType) ==
    IF field = "\\N" THEN NULL
    ELSE IF dataType = "boolean"
         THEN (CASE field = "t" -> BoolTrue [] field = "f" -> BoolFalse [] OTHER -> "<invalid>")
         ELSE UnescapeAcc(field, "")

\* the emitted fields of the rows of table name, row by row, once its block is
\* written
EmittedFields(name) ==
    LET i == CHOOSE k \in 1..Len(w) : HasPrefix(w[k], "COPY " \o name \o " ")
    IN  [r \in 1..Len(collected[name]) |-> SplitOn(w[i + r], "\t")]

\* the places of the values of table name: row and column
Cells(name) == (1..Len(collected[name])) \X (1..Len(g.Tables[name].Columns))

\* every emitted field decodes to its value, and only null is written \N
RoundTrips(name) ==
    \A c \in Cells(name) :
        LET v == collected[name][c[1]][c[2]]
            f == EmittedFields(name)[c[1]][c[2]]
        IN  /\ DecodeCopyField(f, g.Tables[name].Columns[c[2]].DataType) = v
            /\ (f = "\\N") <=> (v = NULL)

\* C15 as stated: every emitted field decodes to its value, null is the only
\* value written \N, and two different values never have the same encoding.
C15_EncodingDeterminesValue ==
    \A name \in DOMAIN g.Tables :
        CopyBlockFor(name) =>
            /\ RoundTrips(name)
            /\ \A c, d \in Cells(name) :
                  EmittedFields(name)[c[1]][c[2]] = EmittedFields(name)[d[1]][d[2]]
                      => collected[name][c[1]][c[2]] = collected[name][d[1]][d[2]]

\* C15: decoding an emitted field with the COPY text-format rules and the type
\* of its column yields the value; null is the only value written \N; and two
\* different values of the same type never have the same encoding.
C15_TypedRoundTrip ==
    \A name \in DOMAIN g.Tables :
        CopyBlockFor(name) =>
            /\ RoundTrips(name)
            /\ \A c, d \in Cells(name) :
                  /\ g.Tables[name].Columns[c[2]].DataType = g.Tables[name].Columns[d[2]].DataType
                  /\ EmittedFields(name)[c[1]][c[2]] = EmittedFields(name)[d[1]][d[2]]
                  => collected[name][c[1]][c[2]] = collected[name][d[1]][d[2]]

\* a row with a null flag and the two-character string backslash-N as note:
\* the fields are \N and \\N
C15_NullNextToBackslashN ==
    /\ pc = "done"
    /\ tables = EscCatalog
    /\ collected["public.a"] = <<<<"1", NULL, "\\N">>>>
    /\ EmittedFields("public.a")[1] = <<"1", "\\N", "\\\\N">>

-----------------------------------------------------------------------------
\* how many lines of the output are the line l
CountLines(l) == Cardinality({i \in 1..Len(w) : w[i] = l})

\* the tables of the COPY lines of the output, in the order of the lines
CopyLineTables ==
    Map(SelectSeq(w, LAMBDA l : HasPrefix(l, "COPY ")),
        LAMBDA l : IF \E name \in DOMAIN g.Tables : HasPrefix(l, "COPY " \o name \o " (")
                   THEN CHOOSE name \in DOMAIN g.Tables : HasPrefix(l, "COPY " \o name \o " (")
                   ELSE "?")

\* the traversal order without the tables that collected no row
TablesWithRows == SelectSeq(order, LAMBDA name : Len(collected[name]) > 0)

\* C16: the output of a successful normal run is the header (BEGIN; and the
\* switch to replica) once at the start, then one COPY block for each table
\* with at least one collected row and none for the others, in traversal
\* order, each block with its rows and ended by the terminator line, then the
\* footer (the switch to origin and COMMIT;) once at the end.
C16_HeaderBlocksFooter ==
    NormalRunDone =>
        /\ Len(w) >= 5
        /\ w[1] = "BEGIN;" /\ CountLines("BEGIN;") = 1
        /\ w[2] = "SET session_replication_role = 'replica';"
        /\ CountLines("SET session_replication_role = 'replica';") = 1
        /\ w[Len(w) - 1] = "SET session_replication_role = 'origin';"
        /\ CountLines("SET session_replication_role = 'origin';") = 1
        /\ w[Len(w)] = "COMMIT;" /\ CountLines("COMMIT;") = 1
        /\ CopyLineTables = TablesWithRows
        /\ CountLines("\\.") = Len(TablesWithRows)
        /\ \A i \in 1..Len(w) :
              HasPrefix(w[i], "COPY ") =>
                  LET name == CHOOSE n \in DOMAIN g.Tables : HasPrefix(w[i], "COPY " \o n \o " (")
                      end == i + Len(collected[name]) + 1
                  IN  /\ i > 2
                      /\ end < Len(w) - 1
                      /\ w[end] = "\\."
                      /\ \A k \in (i + 1)..(end - 1) :
                            ~HasPrefix(w[k], "COPY ") /\ w[k] # "\\."

\* a finished normal run over three tables in which a collected rows, b after
\* it too, and c none: two blocks
C16_TwoBlocksOneEmptyTable ==
    /\ NormalRunDone
    /\ Len(order) = 3
    /\ collected["public.a"] # <<>>
    /\ collected["public.b"] # <<>>
    /\ collected["public.c"] = <<>>
    /\ CopyLineTables = <<"public.a", "public.b">>

-----------------------------------------------------------------------------
\* the foreign keys of table name the child query has a condition for: the
\* parent is in scope and is another table
ChildFKs(gr, name) == SelectSeq(GraphFKs(gr, name), LAMBDA fk : ~fk.IsSelfRef)

\* the values of the columns of fk in a row of table name
FKValues(gr, name, fk, row) ==
    [j \in 1..Len(fk.ChildColumns) |-> row[ColIdx(gr.Tables[name], fk.ChildColumns[j])]]

\* a row of table name passes fk: its foreign key is the key of a collected
\* row of the parent, or fk has a nullable column and all its columns are null
PassesFK(gr, coll, name, fk, row) ==
    LET p == gr.Tables[ParentKey(fk)]
        vals == FKValues(gr, name, fk, row)
    IN  \/ /\ \A j \in 1..Len(vals) : vals[j] # NULL
           /\ \E i \in 1..Len(coll[ParentKey(fk)]) : extractPK(p, coll[ParentKey(fk)][i]) = vals
        \/ /\ \E c \in Range(gr.Tables[name].Columns) :
                 c.Name \in Range(fk.ChildColumns) /\ c.Nullable
           /\ \A j \in 1..Len(vals) : vals[j] = NULL

\* a step of a normal run in which the child query of a table that is not a
\* root ran without error, every parent of the table having collected rows
ChildQueried ==
    /\ pc = "extract"
    /\ pc' # "failed"
    /\ ~flags.dryRun
    /\ g.Tables[order[idx]].Name \notin DOMAIN rootWhere(cfg.Roots)
    /\ Len(g.Parents[order[idx]]) > 0
    /\ ChildFKs(g, order[idx]) # <<>>
    /\ \A fk \in Range(ChildFKs(g, order[idx])) : Len(collectedPKs[ParentKey(fk)]) > 0

\* C17: when every in-scope foreign key of a child table (self-references
\* apart) has a parent with collected keys, the child query collects exactly
\* the rows of the table that pass every one of these keys: the key of a
\* collected parent row, or all columns null when the key is nullable. A row
\* that references an uncollected parent is not collected.
C17_ChildRowsPassEveryFK ==
    [][ChildQueried =>
          LET name == order[idx]
          IN  collected'[name] =
                  SelectSeq(db'[name],
                            LAMBDA row : \A fk \in Range(ChildFKs(g, name)) :
                                PassesFK(g, collected, name, fk, row))]_vars

\* a finished run with root a restricted to row 1 and c(a_id NULL -> a): the
\* row of c without parent is collected, the row of c under row 2 of a is not
C17_NullKeptUncollectedParentLeft ==
    /\ NormalRunDone
    /\ cfg.Roots = <<[Table |-> "a", Where |-> "id = '1'"]>>
    /\ {"public.a", "public.c"} \subseteq DOMAIN db
    /\ Len(g.Tables["public.c"].ForeignKeys) = 1
    /\ g.Tables["public.c"].ForeignKeys[1].ParentTable = "a"
    /\ Len(db["public.a"]) = 2
    /\ db["public.c"] = <<<<"1", NULL>>, <<"2", "2">>>>
    /\ collected["public.c"] = <<<<"1", NULL>>>>

-----------------------------------------------------------------------------
(* Runs with a virtual relation: b(id, tags int[], meta jsonb) refers to  *)
(* a(id) through the elements of tags or through meta->>'user_id'; the    *)
(* database has no constraint between the two tables.                     *)

\* the text of an array value and of a JSON object with one field
ArrayText(elems) == "{" \o Join(elems, ",") \o "}"
JsonText(path, v) == "{\"" \o path \o "\": " \o v \o "}"

\* the elements of an array value; the text of field path of a JSON value,
\* NULL when the object has no such field
ArrayElems(text) ==
    IF text = "{}" THEN {} ELSE Range(SplitOn(SubSeq(text, 2, Len(text) - 1), ","))
JsonField(text, path) ==
    LET prefix == "{\"" \o path \o "\": "
    IN  IF HasPrefix(text, prefix) THEN SubSeq(text, Len(prefix) + 1, Len(text) - 1) ELSE NULL

VirtCatalog ==
    [k \in {"public.a", "public.b"} |->
        IF k = "public.a" THEN MkTable("a", {})
        ELSE [Schema |-> "public", Name |-> "b",
              Columns |-> <<[Name |-> "id", Nullable |-> FALSE],
                            [Name |-> "tags", Nullable |-> FALSE],
                            [Name |-> "meta", Nullable |-> FALSE]>>,
              PrimaryKey |-> <<"id">>,
              ForeignKeys |-> <<>>]]

\* virtual_relations of the configuration file: one relation, of either kind
VirtRelations ==
    {<<[ChildTable |-> "b", ChildColumn |-> "tags", ParentTable |-> "a",
        ParentColumn |-> "id", Type |-> "array", JSONPath |-> ""]>>,
     <<[ChildTable |-> "b", ChildColumn |-> "meta", ParentTable |-> "a",
        ParentColumn |-> "id", Type |-> "json", JSONPath |-> "user_id"]>>}

\* the arrays over the identifiers (elements in ascending order)
ArrayValues ==
    {ArrayText(SelectSeq([i \in 1..MaxId |-> IdNames[i]], LAMBDA x : x \in S)) : S \in SUBSET Ids}

\* the contents of b: two rows, each with any array and any object
VirtContents ==
    Prod([i \in 1..2 |->
        {<<IdNames[i], tags, meta>> :
            tags \in ArrayValues,
            meta \in {JsonText("user_id", v) : v \in Ids} \cup {"{}"}}])

InitVirtual ==
    /\ pc = "preRun"
    /\ tables = VirtCatalog
    /\ \E ca \in Contents(VirtCatalog["public.a"]), cb \in VirtContents :
          db = [k \in {"public.a", "public.b"} |-> IF k = "public.a" THEN ca ELSE cb]
    /\ \E where \in WhereTexts, vrs \in VirtRelations :
          cfg = [Connection |-> GoodConnection,
                 Roots |-> <<[Table |-> "a", Where |-> where]>>,
                 ExcludeTables |-> {}, Output |-> "", VirtualRelations |-> vrs]
    /\ flags = [cfgPath |-> "c.yaml", outputPath |-> "", dryRun |-> FALSE, verbose |-> FALSE]
    /\ g = NoGraph
    /\ order = <<>>
    /\ idx = 0
    /\ collected = EmptyMap
    /\ collectedPKs = EmptyMap
    /\ queries = <<>>
    /\ stdout = <<>>
    /\ w = <<>>
    /\ files = [p \in Paths |-> NoFile]
    /\ logged = <<>>
    /\ connected = FALSE
    /\ sr = NoSelfRef
    /\ err = ""

SpecVirtual == InitVirtual /\ [][NextSettings]_vars

\* the virtual foreign keys of table name in the graph
VirtualFKs(gr, name) == SelectSeq(GraphFKs(gr, name), LAMBDA fk : fk.Virtual # "")

\* the values a virtual foreign key makes a row refer to: the elements of the
\* array column, or the text at the JSON path of the column
RefersTo(gr, name, fk, row) ==
    LET v == row[ColIdx(gr.Tables[name], fk.ChildColumns[1])]
    IN  IF fk.Virtual = "array" THEN ArrayElems(v)
        ELSE {JsonField(v, fk.JSONPath)} \ {NULL}

\* the text forms of the collected keys of the parent of fk
CollectedKeyTexts(gr, coll, fk) ==
    {FmtAny(extractPK(gr.Tables[ParentKey(fk)], coll[ParentKey(fk)][i])[1]) :
        i \in 1..Len(coll[ParentKey(fk)])}

\* C18: through a virtual relation of kind array the child query selects a
\* row iff its array shares an element with the collected parent keys; of
\* kind json, iff the text at the JSON path equals the text of a collected
\* parent key.
C18_VirtualRowsSelected ==
    NormalRunDone =>
        \A name \in DOMAIN g.Tables :
            (/\ g.Tables[name].Name \notin DOMAIN rootWhere(cfg.Roots)
             /\ Len(VirtualFKs(g, name)) = 1
             /\ Len(GraphFKs(g, name)) = 1
             /\ collected[ParentKey(VirtualFKs(g, name)[1])] # <<>>)
            => collected[name] =
                   SelectSeq(db[name], LAMBDA row :
                       RefersTo(g, name, VirtualFKs(g, name)[1], row)
                           \cap CollectedKeyTexts(g, collected, VirtualFKs(g, name)[1]) # {})

\* a finished normal run with the json relation: row 1 of a is collected,
\* rows of b carry "user_id": 1 in meta, and no row of b is collected
C18_ReferringRowsLeftOut ==
    /\ NormalRunDone
    /\ cfg.VirtualRelations # <<>>
    /\ cfg.VirtualRelations[1].Type = "json"
    /\ <<"1">> \in Range(collected["public.a"])
    /\ \E i \in 1..Len(db["public.b"]) : JsonField(db["public.b"][i][3], "user_id") = "1"
    /\ collected["public.b"] = <<>>
    /\ ~CopyBlockFor("public.b")

-----------------------------------------------------------------------------
\* the sequences without repeats of the tables of S: the subsets TopoSort may
\* be given
SubsetSeqs(S) == UNION {Perms(X) : X \in SUBSET S}

\* the tables of S reached from frontier along child -> parent edges inside S
RECURSIVE AncestorsWithin(_, _, _, _)
AncestorsWithin(gr, S, frontier, seen) ==
    LET next == (UNION {Range(gr.Parents[x]) : x \in frontier} \cap S) \ seen
    IN  IF next = {} THEN seen ELSE AncestorsWithin(gr, S, next, seen \cup next)

\* the edges inside S hold a directed cycle
CycleWithin(gr, S) == \E t \in S : t \in AncestorsWithin(gr, S, {t}, {})

\* what C19 asks of the result of TopoSort(gr, ts)
TopoResultSound(gr, ts) ==
    LET r == TopoSort(gr, ts)
    IN  /\ Range(r.Order) \cap Range(r.CycleTables) = {}
        /\ Cardinality(Range(r.Order)) = Len(r.Order)
        /\ Cardinality(Range(r.CycleTables)) = Len(r.CycleTables)
        /\ Range(r.Order) \cup Range(r.CycleTables) = Range(ts)
        /\ r.HasCycle <=> r.CycleTables # <<>>
        /\ r.HasCycle <=> CycleWithin(gr, Range(ts))
        /\ \A i \in 1..Len(r.Order) :
              \A p \in Range(gr.Parents[r.Order[i]]) \cap Range(ts) :
                  \E j \in 1..(i - 1) : r.Order[j] = p

\* C19: for the graph of the run and every subset of its tables, in every
\* order, TopoSort returns Order and CycleTables that are disjoint, without
\* repeats, and together the subset; HasCycle says that CycleTables is not
\* empty and that the edges inside the subset hold a directed cycle; every
\* parent inside the subset of a table of Order stands before it in Order.
C19_TopoSortSound ==
    pc = "checkRoots" => \A ts \in SubsetSeqs(DOMAIN g.Tables) : TopoResultSound(g, ts)

\* a graph with the cycle a <-> b and c below both: the whole graph has a
\* cycle, the subset a, c has none and is sorted a before c
C19_CycleAndAcyclicSubset ==
    /\ pc = "checkRoots"
    /\ "public.b" \in Range(g.Parents["public.a"])
    /\ "public.a" \in Range(g.Parents["public.b"])
    /\ Range(g.Parents["public.c"]) = {"public.a", "public.b"}
    /\ TopoSort(g, <<"public.c", "public.b", "public.a">>).HasCycle
    /\ TopoSort(g, <<"public.c", "public.a">>).Order = <<"public.a", "public.c">>

\* the tables of the graph that lie on a directed cycle of foreign keys
\* (self-references apart)
TablesOnCycles(gr) ==
    {t \in DOMAIN gr.Tables : t \in AncestorsWithin(gr, DOMAIN gr.Tables, {t}, {})}

\* C20: CycleTables of the sort of the whole graph lists the tables involved
\* in cycles: every table it reports lies on a directed cycle of foreign
\* keys, and every table on such a cycle is reported.
C20_CycleTablesOnCycles ==
    pc = "checkRoots" =>
        \A iter \in Perms(DOMAIN g.Tables) :
            Range(TopoSortAll(g, iter).CycleTables) = TablesOnCycles(g)

\* a run on the cycle a <-> b with c referencing a: the warning lists c,
\* which lies on no cycle
C20_DownstreamTableReported ==
    /\ logged # <<>>
    /\ TablesOnCycles(g) = {"public.a", "public.b"}
    /\ "public.c" \in WarnedCycleTables

-----------------------------------------------------------------------------
(* Dry runs that vary what graph.Build is given: every catalog, every set *)
(* of excluded tables, and virtual relations with resolved and unresolved *)
(* sides, between two tables and from a table to itself.                  *)

VirtualRel(child, parent) ==
    [ChildTable |-> child, ChildColumn |-> "id", ParentTable |-> parent,
     ParentColumn |-> "id", Type |-> "array", JSONPath |-> ""]

BuildRelations ==
    {<<>>,
     <<VirtualRel("b", "a")>>,
     <<VirtualRel("a", "a")>>,
     <<VirtualRel("b", "zzz")>>,
     <<VirtualRel("zzz", "a")>>,
     <<VirtualRel("c", "b"), VirtualRel("public.a", "public.c")>>}

InitBuild ==
    /\ Fresh
    /\ tables \in AllCatalogs
    /\ \E excl \in SUBSET Range(TableNames), vrs \in BuildRelations :
          cfg = [Connection |-> GoodConnection,
                 Roots |-> <<[Table |-> "a", Where |-> ""]>>,
                 ExcludeTables |-> excl, Output |-> "", VirtualRelations |-> vrs]
    /\ flags = [cfgPath |-> "c.yaml", outputPath |-> "", dryRun |-> TRUE, verbose |-> FALSE]
    /\ files = [p \in Paths |-> NoFile]

SpecBuild == InitBuild /\ [][NextDry]_vars

\* the keys of the tables that are not excluded
InScope == {k \in DOMAIN tables : tables[k].Name \notin cfg.ExcludeTables}

\* the foreign keys of the in-scope tables whose parent is in scope too, each
\* with the key of its table
ScopedFKs ==
    {<<n, j>> \in InScope \X (1..(MaxFKs + Len(FKUniverse))) :
        /\ j <= Len(g.Tables[n].ForeignKeys)
        /\ ParentKey(g.Tables[n].ForeignKeys[j]) \in InScope}

\* how often x occurs in the sequence s
Count(s, x) == Cardinality({i \in 1..Len(s) : s[i] = x})

\* a side of a virtual relation names an in-scope table, by key or by name
Resolves(name) == \E k \in InScope : k = name \/ tables[k].Name = name

\* the virtual foreign keys of the graph, each with the key of its table
VirtualInGraph ==
    {<<n, j>> \in InScope \X (1..(MaxFKs + Len(FKUniverse))) :
        /\ j <= Len(g.Tables[n].ForeignKeys)
        /\ g.Tables[n].ForeignKeys[j].Virtual # ""}

\* C21: after Build no excluded table is in Tables, Edges, Children, Parents
\* or Adjacency; both endpoints of every edge are tables of the graph; a
\* foreign key with its parent in scope is in SelfRefs iff child and parent
\* are the same table, and is an edge otherwise, never both; Children,
\* Parents and Adjacency hold exactly the pairs of Edges, Adjacency in both
\* directions; and a virtual relation adds a foreign key only when both its
\* sides resolve.
C21_BuildWellFormed ==
    pc = "checkRoots" =>
        /\ DOMAIN g.Tables = InScope
        /\ DOMAIN g.Children \subseteq InScope
        /\ DOMAIN g.Parents \subseteq InScope
        /\ DOMAIN g.Adjacency \subseteq InScope
        /\ DOMAIN g.SelfRefs \subseteq InScope
        /\ \A i \in 1..Len(g.Edges) :
              /\ g.Edges[i].ChildTable \in DOMAIN g.Tables
              /\ g.Edges[i].ParentTable \in DOMAIN g.Tables
              /\ g.Edges[i].ChildTable # g.Edges[i].ParentTable
              /\ g.Edges[i].ParentTable = ParentKey(g.Edges[i].FK)
              /\ g.Edges[i].FK \in Range(g.Tables[g.Edges[i].ChildTable].ForeignKeys)
              /\ g.Edges[i].FK \notin Range(g.SelfRefs[g.Edges[i].ChildTable])
        /\ Len(g.Edges) = Cardinality({x \in ScopedFKs :
                                ParentKey(g.Tables[x[1]].ForeignKeys[x[2]]) # x[1]})
        /\ \A x \in ScopedFKs :
              LET fk == g.Tables[x[1]].ForeignKeys[x[2]]
              IN  /\ (fk \in Range(g.SelfRefs[x[1]])) <=> (ParentKey(fk) = x[1])
                  /\ (ParentKey(fk) # x[1]) <=>
                         \E i \in 1..Len(g.Edges) :
                             g.Edges[i].FK = fk /\ g.Edges[i].ChildTable = x[1]
        /\ \A n \in InScope :
              /\ \A fk \in Range(g.SelfRefs[n]) :
                    fk \in Range(g.Tables[n].ForeignKeys) /\ ParentKey(fk) = n
              /\ \A m \in InScope :
                    LET pairs == Cardinality({i \in 1..Len(g.Edges) :
                                    g.Edges[i].ChildTable = n /\ g.Edges[i].ParentTable = m})
                    IN  /\ Count(g.Parents[n], m) = pairs
                        /\ Count(g.Children[m], n) = pairs
                        /\ (m \in g.Adjacency[n]) <=> (pairs > 0 \/ Count(g.Parents[m], n) > 0)
                        /\ (m \in g.Adjacency[n]) <=> (n \in g.Adjacency[m])
              /\ Range(g.Parents[n]) \cup Range(g.Children[n]) \cup g.Adjacency[n] \subseteq InScope
        /\ Cardinality(VirtualInGraph) =
               Cardinality({i \in 1..Len(cfg.VirtualRelations) :
                   Resolves(cfg.VirtualRelations[i].ChildTable)
                   /\ Resolves(cfg.VirtualRelations[i].ParentTable)})

\* a graph built with c excluded, the real keys a.parent_id -> a and
\* b.a_id -> a, and a virtual relation whose parent does not resolve
C21_ExcludedAndUnresolved ==
    /\ pc = "checkRoots"
    /\ cfg.ExcludeTables = {"c"}
    /\ cfg.VirtualRelations = <<VirtualRel("b", "zzz")>>
    /\ Len(g.SelfRefs["public.a"]) = 1
    /\ g.Parents["public.b"] = <<"public.a">>
    /\ VirtualInGraph = {}

-----------------------------------------------------------------------------
(* Traversals whose child query has a composite and a single-column       *)
(* condition: order_lines(id, tenant_id, order_no, item_id) refers to     *)
(* orders(tenant_id, order_no) and to items(id).                          *)

\* orders, with the primary key pk
OrdersTable(pk) ==
    [Schema |-> "public", Name |-> "orders",
     Columns |-> <<[Name |-> "tenant_id", Nullable |-> FALSE],
                   [Name |-> "order_no", Nullable |-> FALSE]>>,
     PrimaryKey |-> pk,
     ForeignKeys |-> <<>>]

ItemsTable ==
    [Schema |-> "public", Name |-> "items",
     Columns |-> <<[Name |-> "id", Nullable |-> FALSE]>>,
     PrimaryKey |-> <<"id">>,
     ForeignKeys |-> <<>>]

OrderFK ==
    [Name |-> "order_lines_order_fkey",
     ChildSchema |-> "public", ChildTable |-> "order_lines",
     ChildColumns |-> <<"tenant_id", "order_no">>,
     ParentSchema |-> "public", ParentTable |-> "orders",
     ParentColumns |-> <<"tenant_id", "order_no">>,
     IsSelfRef |-> FALSE, Virtual |-> "", JSONPath |-> ""]

ItemFK ==
    [Name |-> "order_lines_item_fkey",
     ChildSchema |-> "public", ChildTable |-> "order_lines",
     ChildColumns |-> <<"item_id">>,
     ParentSchema |-> "public", ParentTable |-> "items",
     ParentColumns |-> <<"id">>,
     IsSelfRef |-> FALSE, Virtual |-> "", JSONPath |-> ""]

\* order_lines with its foreign keys in the order fks; the columns of the
\* composite key nullable or not
LinesTable(fks, nullable) ==
    [Schema |-> "public", Name |-> "order_lines",
     Columns |-> <<[Name |-> "id", Nullable |-> FALSE],
                   [Name |-> "tenant_id", Nullable |-> nullable],
                   [Name |-> "order_no", Nullable |-> nullable],
                   [Name |-> "item_id", Nullable |-> FALSE]>>,
     PrimaryKey |-> <<"id">>,
     ForeignKeys |-> fks]

\* the catalogs: the primary key of orders is the pair the composite key
\* references or its first column only; order_lines has one or both keys
QueryCatalogs ==
    {[k \in {"public.orders", "public.items", "public.order_lines"} |->
        IF k = "public.orders" THEN OrdersTable(pk)
        ELSE IF k = "public.items" THEN ItemsTable
        ELSE LinesTable(fks, nullable)] :
     pk \in {<<"tenant_id", "order_no">>, <<"tenant_id">>},
     fks \in {<<OrderFK, ItemFK>>, <<ItemFK, OrderFK>>, <<OrderFK>>},
     nullable \in BOOLEAN}

\* the contents of the three tables
QueryContents ==
    {[k \in {"public.orders", "public.items", "public.order_lines"} |->
        IF k = "public.orders" THEN orders
        ELSE IF k = "public.items" THEN [i \in 1..MaxId |-> <<IdNames[i]>>]
        ELSE <<<<"1", "1", "100", "1">>, <<"2", "1", "101", "2">>, <<"3", "2", "200", "1">>>>] :
     orders \in {<<<<"1", "100">>>>,
                 <<<<"1", "100">>, <<"2", "200">>>>,
                 <<<<"1", "100">>, <<"1", "101">>, <<"2", "200">>>>}}

InitQuery ==
    /\ pc = "extract"
    /\ tables \in QueryCatalogs
    /\ \E where \in WhereTexts :
          cfg = [Connection |-> GoodConnection,
                 Roots |-> <<[Table |-> "orders", Where |-> ""],
                             [Table |-> "items", Where |-> where]>>,
                 ExcludeTables |-> {}, Output |-> "", VirtualRelations |-> <<>>]
    /\ flags = [cfgPath |-> "c.yaml", outputPath |-> "", dryRun |-> FALSE, verbose |-> FALSE]
    /\ \E iter \in Perms(DOMAIN tables), again \in Perms(DOMAIN tables) :
          /\ g = Build(tables, {}, <<>>, iter)
          /\ order = ExtractOrder(TopoSortAll(g, again))
    /\ idx = 1
    /\ db \in QueryContents
    /\ collected = [k \in DOMAIN tables |-> <<>>]
    /\ collectedPKs = [k \in DOMAIN tables |-> <<>>]
    /\ queries = <<>>
    /\ stdout = <<>>
    /\ w = <<>>
    /\ files = [p \in Paths |-> NoFile]
    /\ logged = <<>>
    /\ connected = TRUE
    /\ sr = NoSelfRef
    /\ err = ""

SpecQuery == InitQuery /\ [][NextCap]_vars

\* the placeholders of a query from left to right: the numbers n of its $n
PlaceholdersOf(q) == Flatten([c \in 1..Len(q.conds) |-> Flatten(q.conds[c].tuples)])

\* the foreign keys of table name that get a condition: not self-referencing,
\* parent with collected keys
CondFKs(name) ==
    SelectSeq(g.Tables[name].ForeignKeys,
              LAMBDA fk : /\ ~fk.IsSelfRef
                          /\ ParentKey(fk) \in DOMAIN collectedPKs
                          /\ Len(collectedPKs[ParentKey(fk)]) > 0)

\* C22: the placeholders of every child query sent are $1 .. $n from left to
\* right, n being the number of arguments; there is one condition per foreign
\* key with collected parent keys, in the order of the keys, with one tuple
\* per parent key and one placeholder per column of the foreign key, bound
\* position by position to the parent key and to NULL past its end.
C22_PlaceholdersThreadThrough ==
    \A i \in 1..Len(queries) :
        queries[i].query.kind = "child" =>
            LET q == queries[i].query
                args == queries[i].args
                fks == CondFKs(q.table)
            IN  /\ PlaceholdersOf(q) = [k \in 1..Len(args) |-> k]
                /\ Len(q.conds) = Len(fks)
                /\ \A c \in 1..Len(fks) :
                      LET pks == collectedPKs[ParentKey(fks[c])]
                      IN  /\ q.conds[c].cols = fks[c].ChildColumns
                          /\ Len(q.conds[c].tuples) = Len(pks)
                          /\ \A p \in 1..Len(pks) :
                                /\ Len(q.conds[c].tuples[p]) = Len(fks[c].ChildColumns)
                                /\ \A j \in 1..Len(fks[c].ChildColumns) :
                                      args[q.conds[c].tuples[p][j]] =
                                          IF j <= Len(pks[p]) THEN pks[p][j] ELSE NULL

\* the child query of order_lines after three orders and the items were
\* collected, the item key first: ($1, $2), then (($3,$4),($5,$6),($7,$8))
C22_SingleThenComposite ==
    /\ Len(queries) = 3
    /\ queries[3].query.kind = "child"
    /\ Len(queries[3].query.conds) = 2
    /\ queries[3].query.conds[1].tuples = <<<<1>>, <<2>>>>
    /\ queries[3].query.conds[2].tuples = <<<<3, 4>>, <<5, 6>>, <<7, 8>>>>
    /\ queries[3].args = <<"1", "2", "1", "100", "1", "101", "2", "200">>

-----------------------------------------------------------------------------
\* the table at idx is a root: its unqualified name is among cfg.Roots
IsRoot(name) == g.Tables[name].Name \in DOMAIN rootWhere(cfg.Roots)

\* the queries a step sends
NewQueries == SubSeq(queries', Len(queries) + 1, Len(queries'))

\* what the first half of the loop body of a normal run sends for the table
\* at idx: the root query alone for a root; for another table with parents
\* the child query, when a parent has collected keys; nothing otherwise, and
\* then no self-reference expansion follows
OneTreatment ==
    (pc = "extract" /\ ~flags.dryRun) =>
        LET name == order[idx]
        IN  IF IsRoot(name)
            THEN /\ Len(NewQueries) = 1
                 /\ NewQueries[1].query.kind = "root"
                 /\ NewQueries[1].query.table = name
                 /\ NewQueries[1].query.conds = <<>>
                 /\ NewQueries[1].args = <<>>
            ELSE IF Len(g.Parents[name]) > 0
            THEN /\ Len(NewQueries) = (IF CondFKs(name) # <<>> THEN 1 ELSE 0)
                 /\ \A i \in 1..Len(NewQueries) :
                       NewQueries[i].query.kind = "child" /\ NewQueries[i].query.table = name
            ELSE /\ NewQueries = <<>>
                 /\ collected'[name] = <<>>
                 /\ pc' # "selfref"

\* C23: the traversal order holds every table of the graph once; the table
\* visited gets one treatment: a root the root query only, without any
\* condition from its parents; another table with a parent edge the child
\* query; a table that is neither a root nor has parents nothing, and it
\* keeps zero collected rows to the end, self-referencing keys or not.
C23_OneTreatmentPerTable ==
    [][/\ pc = "topo" =>
             /\ Range(order') = DOMAIN g.Tables
             /\ Len(order') = Cardinality(DOMAIN g.Tables)
       /\ OneTreatment
       /\ pc \in {"extract", "selfref"} =>
             /\ idx' \in {idx, idx + 1, 0}
             /\ \A name \in DOMAIN collected' :
                   (~IsRoot(name) /\ Len(g.Parents[name]) = 0) => collected'[name] = <<>>
       ]_vars

\* a finished normal run with root c, which has the parent a, and a, which
\* has a self-referencing key and no parent: one query, the root query of c
C23_RootWithParentAloneQueried ==
    /\ NormalRunDone
    /\ cfg.Roots = <<[Table |-> "c", Where |-> ""]>>
    /\ g.Parents["public.c"] = <<"public.a">>
    /\ g.Parents["public.a"] = <<>>
    /\ Len(g.SelfRefs["public.a"]) = 1
    /\ Len(queries) = 1
    /\ queries[1].query.kind = "root"
    /\ queries[1].query.table = "public.c"
    /\ collected["public.a"] = <<>>
    /\ collected["public.c"] # <<>>

-----------------------------------------------------------------------------
\* the traversal of a normal run on the hierarchy, from its first table on;
\* a holds the rows 1 .. MaxId, each with any parent or none
InitLoop ==
    LET graph == Build(TreeCatalog, {}, <<>>, TableKeys)
        contents == Prod([i \in 1..MaxId |-> {<<IdNames[i], p>> : p \in Ids \cup {NULL}}])
    IN  /\ pc = "extract"
        /\ tables = TreeCatalog
        /\ \E c \in contents : db = [k \in {"public.a"} |-> c]
        /\ \E where \in WhereTexts :
              cfg = [Connection |-> GoodConnection,
                     Roots |-> <<[Table |-> "a", Where |-> where]>>,
                     ExcludeTables |-> {}, Output |-> "", VirtualRelations |-> <<>>]
        /\ flags = [cfgPath |-> "c.yaml", outputPath |-> "", dryRun |-> FALSE, verbose |-> FALSE]
        /\ g = graph
        /\ order = ExtractOrder(TopoSortAll(graph, TableKeys))
        /\ idx = 1
        /\ collected = [k \in DOMAIN graph.Tables |-> <<>>]
        /\ collectedPKs = [k \in DOMAIN graph.Tables |-> <<>>]
        /\ queries = <<>>
        /\ stdout = <<>>
        /\ w = <<>>
        /\ files = [p \in Paths |-> NoFile]
        /\ logged = <<>>
        /\ connected = TRUE
        /\ sr = NoSelfRef
        /\ err = ""

NextLoop ==
    \/ ExtractTable
    \/ ExtractSelfRef
    \/ WriteHeader
    \/ WriteTableData
    \/ WriteFooter

\* the traversals in which an expansion that was entered goes on: the process
\* is scheduled and the executor answers every query it can finish
FairLoop == InitLoop /\ [][NextLoop]_vars /\ WF_vars(ExtractSelfRef)

\* C24: the self-reference expansion ends for every content of the table,
\* cyclic data included: whenever the run is in the expansion it gets out of
\* it, to the next table, the emission or a failure.
C24_SelfRefTerminates == (pc = "selfref") ~> (pc \notin {"selfref", "hung"})

\* a run inside the recursive query for ever: row 1 of a, selected by the
\* root query, references itself
C24_SelfReferencingRowHangs ==
    /\ pc = "hung"
    /\ "public.a" \in DOMAIN db
    /\ db["public.a"][1] = <<"1", "1">>
    /\ <<"1", "1">> \in Range(collected["public.a"])
    /\ w = <<>>

-----------------------------------------------------------------------------
(* Runs on one table with two self-referencing keys: a(id, alt_id,        *)
(* parent_id) with alt_id -> a.id and parent_id -> a.id.                  *)

ForestCatalog == MkCatalog({1, 3})

\* the traversal of a normal run on that table, from its first table on; a
\* holds the rows 1 .. MaxTreeId and a key of row i is NULL or names a row
\* after i, so that no reference of the data lies on a cycle
InitForest ==
    LET graph == Build(ForestCatalog, {}, <<>>, TableKeys)
        later(i) == {IdNames[j] : j \in (i + 1)..MaxTreeId} \cup {NULL}
        contents == Prod([i \in 1..MaxTreeId |->
                            {<<IdNames[i], alt, p>> : alt \in later(i), p \in later(i)}])
    IN  /\ pc = "extract"
        /\ tables = ForestCatalog
        /\ \E c \in contents : db = [k \in {"public.a"} |-> c]
        /\ \E where \in WhereTexts :
              cfg = [Connection |-> GoodConnection,
                     Roots |-> <<[Table |-> "a", Where |-> where]>>,
                     ExcludeTables |-> {}, Output |-> "", VirtualRelations |-> <<>>]
        /\ flags = [cfgPath |-> "c.yaml", outputPath |-> "", dryRun |-> FALSE, verbose |-> FALSE]
        /\ g = graph
        /\ order = ExtractOrder(TopoSortAll(graph, TableKeys))
        /\ idx = 1
        /\ collected = [k \in DOMAIN graph.Tables |-> <<>>]
        /\ collectedPKs = [k \in DOMAIN graph.Tables |-> <<>>]
        /\ queries = <<>>
        /\ stdout = <<>>
        /\ w = <<>>
        /\ files = [p \in Paths |-> NoFile]
        /\ logged = <<>>
        /\ connected = TRUE
        /\ sr = NoSelfRef
        /\ err = ""

SpecForest == InitForest /\ [][NextLoop]_vars

\* C25: after the self-reference expansion of a table with several
\* self-referencing keys the collected rows are closed under all of them:
\* every collected row has, for every self-referencing key whose column is not
\* NULL in it, the referenced row among the collected rows, also when the row
\* was added by the expansion of an earlier key.
C25_ClosedUnderSelfRefs ==
    (NormalRunDone /\ Len(g.SelfRefs["public.a"]) > 1) =>
        \A i \in 1..Len(collected["public.a"]) :
            \A k \in 1..Len(g.SelfRefs["public.a"]) :
                FKSatisfied(g, collected, "public.a", g.SelfRefs["public.a"][k],
                            collected["public.a"][i])

\* row 1, the root's, names row 2 in alt_id and row 2 names row 3 in
\* parent_id: row 2 was added by the expansion of alt_id and row 3 is missing
C25_ParentOfAddedRowMissing ==
    /\ NormalRunDone
    /\ Len(g.SelfRefs["public.a"]) = 2
    /\ db["public.a"] = << <<"1", "2", NULL>>, <<"2", NULL, "3">>, <<"3", NULL, NULL>> >>
    /\ collected["public.a"] = << <<"1", "2", NULL>>, <<"2", NULL, "3">> >>

-----------------------------------------------------------------------------
\* the run failed in a query of the extraction and its output is a file
ExtractionFailedOnFile ==
    /\ pc = "failed"
    /\ HasPrefix(err, "extracting ")
    /\ ~ToStdout

\* the path of Paths that is not the output path: no run writes it, and at
\* the start every path holds the same file, so it holds what the output
\* path held before the run
OtherPath == CHOOSE p \in Paths : p # OutPath

\* C26: when the extraction fails with a query error after the output path
\* was resolved to a file, the file at that path is what it was before the
\* run: no truncated or empty file has replaced it.
C26_FailedRunLeavesFile ==
    ExtractionFailedOnFile => files[OutPath] = files[OtherPath]

\* the root query failed and the file that held the output of an earlier run
\* is empty
C26_OldOutputTruncated ==
    /\ ExtractionFailedOnFile
    /\ files[OtherPath] = OldFile
    /\ files[OutPath] = [exists |-> TRUE, lines |-> <<>>]
    /\ queries # <<>>

-----------------------------------------------------------------------------
(* Runs on one table with a composite primary key of text values and a    *)
(* self-referencing key: nodes(id, part, parent_id, parent_part) with     *)
(* (parent_id, parent_part) -> nodes(id, part).                           *)

NodesTable ==
    [Schema |-> "public", Name |-> "nodes",
     Columns |-> <<[Name |-> "id", Nullable |-> FALSE],
                   [Name |-> "part", Nullable |-> FALSE],
                   [Name |-> "parent_id", Nullable |-> TRUE],
                   [Name |-> "parent_part", Nullable |-> TRUE]>>,
     PrimaryKey |-> <<"id", "part">>,
     ForeignKeys |-> <<[Name |-> "nodes_parent_fkey",
                        ChildSchema |-> "public", ChildTable |-> "nodes",
                        ChildColumns |-> <<"parent_id", "parent_part">>,
                        ParentSchema |-> "public", ParentTable |-> "nodes",
                        ParentColumns |-> <<"id", "part">>,
                        IsSelfRef |-> TRUE, Virtual |-> "", JSONPath |-> ""]>>]

\* the contents of nodes: MaxId rows with different primary keys (text
\* values, with and without a space), each referencing the row after it or
\* nothing
NodeContents ==
    LET NodeKeys == {<<"1", "2">>, <<"1", "2 3">>, <<"1 2", "3">>, <<"2", "3">>}
    IN  {[i \in 1..MaxId |->
            keys[i] \o (IF i < MaxId /\ i \in refs THEN keys[i + 1] ELSE <<NULL, NULL>>)] :
         keys \in {s \in [1..MaxId -> NodeKeys] : \A i, j \in 1..MaxId : s[i] = s[j] => i = j},
         refs \in SUBSET (1..MaxId)}

\* the traversal of a normal run on nodes
InitNodes ==
    LET catalog == [k \in {"public.nodes"} |-> NodesTable]
        graph == Build(catalog, {}, <<>>, <<"public.nodes">>)
    IN  /\ pc = "extract"
        /\ tables = catalog
        /\ \E c \in NodeContents : db = [k \in {"public.nodes"} |-> c]
        /\ \E where \in WhereTexts :
              cfg = [Connection |-> GoodConnection,
                     Roots |-> <<[Table |-> "nodes", Where |-> where]>>,
                     ExcludeTables |-> {}, Output |-> "", VirtualRelations |-> <<>>]
        /\ flags = [cfgPath |-> "c.yaml", outputPath |-> "", dryRun |-> FALSE, verbose |-> FALSE]
        /\ g = graph
        /\ order = ExtractOrder(TopoSortAll(graph, <<"public.nodes">>))
        /\ idx = 1
        /\ collected = [k \in DOMAIN graph.Tables |-> <<>>]
        /\ collectedPKs = [k \in DOMAIN graph.Tables |-> <<>>]
        /\ queries = <<>>
        /\ stdout = <<>>
        /\ w = <<>>
        /\ files = [p \in Paths |-> NoFile]
        /\ logged = <<>>
        /\ connected = TRUE
        /\ sr = NoSelfRef
        /\ err = ""

SpecNodes == InitNodes /\ [][NextLoop]_vars

\* the rows the recursive query of the round at hand returns
SelfRefAnswer ==
    LET t == g.Tables[order[idx]]
        b == buildSelfRefQuery(t, g.SelfRefs[order[idx]][sr.k], sr.seed)
    IN  Range(ExecSelfRef(g.Tables, db, b.query, b.args).rows)

\* a step in which a round of extractSelfRef merged the answer of its query
SelfRefMerged == pc = "selfref" /\ pc' \notin {"selfref", "hung", "failed"}

\* C27: the merge of the self-reference expansion adds every row the
\* recursive query returns whose primary key differs from every key collected
\* before, also for composite keys of text values with spaces: after the
\* merge the key of every returned row is among the collected keys.
C27_MergeKeepsDistinctKeys ==
    [][SelfRefMerged =>
          \A x \in SelfRefAnswer :
              extractPK(g.Tables[order[idx]], x) \in Range(collectedPKs'[order[idx]])]_vars

\* the root's row ("1", "2 3") references ("1 2", "3"); the run ended with
\* the first collected and the second, whose key prints the same, left out
C27_RowWithSameKeyTextDropped ==
    /\ NormalRunDone
    /\ "public.nodes" \in DOMAIN db
    /\ db["public.nodes"] = << <<"1", "2 3", "1 2", "3">>, <<"1 2", "3", NULL, NULL>> >>
    /\ collected["public.nodes"] = << <<"1", "2 3", "1 2", "3">> >>
    /\ Len(queries) = 2

====
